---- MODULE Spec2Model ----
(***************************************************************************)
(* Model of the restaurant feedback service:                               *)
(*   - the submission validator (shared/schema.ts, insertFeedbackSchema),   *)
(*   - the feedback store's submission path (server/storage.ts,            *)
(*     MongoStorage.createFeedback) with its two collections and their     *)
(*     unique indexes, one step per await of the handler,                  *)
(*   - markContacted,                                                      *)
(*   - the POST create-feedback route and its mapping of errors to HTTP    *)
(*     status codes.                                                       *)
(* Time is a clock of ticks; a calendar date is a run of TicksPerDay ticks.*)
(* A rating value v stands for the number v / Unit, so that Unit = 2 lets  *)
(* the model hold the half star 2.5 as 5.                                  *)
(* The pass-through strings staffName and staffComment are left out.       *)
(***************************************************************************)
EXTENDS Integers, Sequences, FiniteSets, TLC

VARIABLES
    clock,      \* the wall clock, new Date()
    feedbacks,  \* the Feedback collection, in insertion order
    customers,  \* the CustomerCard collection, in insertion order
    nextId,     \* the next generated ObjectId
    req,        \* the create-feedback requests being served, one per slot
    answer,     \* the latest answer of the create-feedback route
    accepted,   \* history: the submissions answered 201, in order of answer
    started,    \* history: number of create-feedback requests received
    marked,     \* history: number of markContacted calls made
    authed,     \* per browser session: req.isAuthenticated()
    list,       \* the list-feedback request being served
    reply,      \* the answer to the latest auth or admin request, once it is given
    analytics,  \* the analytics request being served
    calls,      \* history: number of auth and admin requests received
    contacts    \* history: per Feedback, the last markContacted call that found it

adminVars == <<authed, list, analytics, reply, calls, contacts>>

vars == <<clock, feedbacks, customers, nextId, req, answer, accepted, started, marked,
          authed, list, analytics, reply, calls, contacts>>

(***************************** bounds ***************************************)
MaxClock == 3
TicksPerDay == 2
MaxSubmits == 2
MaxMarks == 1
MaxCalls == 3
MaxRequests == 3
MaxPage == 2
MaxLimit == 2
MaxOddRatings == 2

(************************** program constants ******************************)
Unit == 2
MinRating == 1
MaxRating == 5
NoteMax == 500
PhoneLen == 10
DuplicateKey == 11000
Unset == -1

Reqs == {"r1", "r2"}

Digits == {"0", "1", "2", "3", "4", "5", "6", "7", "8", "9"}

PhoneA == <<"9", "1", "2", "3", "4", "5", "6", "7", "8", "9">>
PhoneB == <<"9", "8", "7", "6", "5", "4", "3", "2", "1", "0">>
PhoneShort == <<"9", "1", "2", "3", "4", "5", "6", "7", "8">>
PhoneAlpha == <<"9", "1", "2", "3", "4", "5", "6", "7", "8", "x">>

Categories == <<"foodQuality", "foodTaste", "staffBehavior", "hygiene", "ambience", "serviceSpeed">>
CategorySet == {Categories[i] : i \in 1..Len(Categories)}

DineTypes == {"dine_in", "take_out"}

(***************************** validation **********************************)
\* /^\d{10}$/
PhoneRegex(s) == Len(s) = PhoneLen /\ \A i \in 1..Len(s) : s[i] \in Digits

\* As RatingOk, with the bounds exclusive (gt and lt for min and max).
RatingOkExclusive(v) == v > MinRating * Unit /\ v < MaxRating * Unit

\* z.number().min(1).max(5): any number from 1 to 5, whole or not.
RatingOk(v) == v >= MinRating * Unit /\ v <= MaxRating * Unit

\* The fields of insertFeedbackSchema in declaration order, the six ratings
\* in place of "ratings".
FieldOrder ==
    <<"name", "phoneNumber", "location", "dineType">>
        \o [i \in 1..Len(Categories) |-> "ratings." \o Categories[i]]
        \o <<"note">>

FieldOk(body, f) ==
    CASE f = "name" -> Len(body.name) >= 1
      [] f = "phoneNumber" -> PhoneRegex(body.phoneNumber)
      [] f = "location" -> Len(body.location) >= 1
      [] f = "dineType" -> body.dineType \in DineTypes
      [] f = "note" -> body.noteLen <= NoteMax
      [] OTHER -> \E i \in 1..Len(Categories) :
                      /\ f = "ratings." \o Categories[i]
                      /\ RatingOk(body.ratings[Categories[i]])

\* As Issues, with the issues collected from the last field to the first.
IssuesLastFirst(body) ==
    LET failing == SelectSeq(FieldOrder, LAMBDA f : ~FieldOk(body, f))
    IN  [i \in 1..Len(failing) |-> failing[Len(failing) + 1 - i]]

\* err.errors of the ZodError: one issue per failing field, in schema order.
Issues(body) == SelectSeq(FieldOrder, LAMBDA f : ~FieldOk(body, f))

\* insertFeedbackSchema.parse succeeds
ParseOk(body) == Issues(body) = <<>>

\* Mongoose VisitSchema validators, run by save()
VisitSchemaOk(v) ==
    /\ Len(v.location) >= 1
    /\ v.dineType \in DineTypes
    /\ \A c \in CategorySet : v.ratings[c] >= MinRating * Unit /\ v.ratings[c] <= MaxRating * Unit
    /\ v.noteLen <= NoteMax

\* Thrown errors: a ZodError, an error carrying a code, any other error.
NoError == [kind |-> "none", code |-> 0]
ZodError == [kind |-> "ZodError", code |-> 0]
DuplicateKeyError == [kind |-> "Error", code |-> DuplicateKey]
StoreError == [kind |-> "Error", code |-> 0]

\* As CatchStatus, without the test of err.code: every error that is no
\* ZodError is answered 500.
CatchStatusNoConflict(err) ==
    IF err.kind = "ZodError" THEN 400 ELSE 500

\* The route's catch block: the HTTP status of a thrown error.
CatchStatus(err) ==
    IF err.kind = "ZodError" THEN 400
    ELSE IF err.code = DuplicateKey THEN 409
    ELSE 500

(***************************** time ****************************************)
\* now.toISOString().split('T')[0]: the calendar date of a timestamp
DateKey(t) == t \div TicksPerDay

(***************************** inputs ***************************************)
\* The ratings of the example submission: 5, 4, 5, 5, 4, 5 stars.
ExampleRatings ==
    [foodQuality |-> 5 * Unit, foodTaste |-> 4 * Unit, staffBehavior |-> 5 * Unit,
     hygiene |-> 5 * Unit, ambience |-> 4 * Unit, serviceSpeed |-> 5 * Unit]

\* As the example, with two and a half stars for food quality.
HalfStarRatings == [ExampleRatings EXCEPT !["foodQuality"] = 2 * Unit + 1]

BaseBody ==
    [name |-> "A", phoneNumber |-> PhoneA, location |-> "Shree Rath",
     dineType |-> "dine_in", ratings |-> ExampleRatings, noteLen |-> 0]

\* Request bodies of the store model: customer A, the same phone number
\* under the name B and with a half star, another customer, and a body that
\* breaks a rule.
OtherNameBody == [BaseBody EXCEPT !.name = "B", !.ratings = HalfStarRatings]

OtherPhoneBody == [BaseBody EXCEPT !.phoneNumber = PhoneB]

InvalidBody == [BaseBody EXCEPT !.ratings = [ExampleRatings EXCEPT !["ambience"] = 6 * Unit]]

ValidSubmitBodies == {BaseBody, OtherNameBody, OtherPhoneBody}

SubmitBodies == ValidSubmitBodies \cup {InvalidBody}

\* Request bodies of the validator model.  A rating is 0, 1, 2.5, 5 or 6
\* stars; at most MaxOddRatings of the six differ from four stars.
RatingInputs == {0, 1 * Unit, 2 * Unit + 1, 5 * Unit, 6 * Unit}

RatingRecords ==
    {rt \in [CategorySet -> RatingInputs \cup {4 * Unit}] :
        Cardinality({c \in CategorySet : rt[c] # 4 * Unit}) <= MaxOddRatings}

ValidateBodies ==
    [name : {"", "A"}, phoneNumber : {PhoneA, PhoneShort, PhoneAlpha},
     location : {"", "Shree Rath"}, dineType : {"dine_in", "take_out", "delivery"},
     ratings : RatingRecords, noteLen : {0, NoteMax, NoteMax + 1}]

(***************************** documents ***********************************)
\* A Visit subdocument built by createFeedback from the parsed input.
NewVisit(input, now) ==
    [location |-> input.location, dineType |-> input.dineType,
     ratings |-> input.ratings, noteLen |-> input.noteLen,
     createdAt |-> now, dateKey |-> DateKey(now)]

\* null, the result of a findOne that matches nothing
NoFeedback ==
    [id |-> 0, name |-> "", phoneNumber |-> <<>>, visits |-> <<>>,
     contactedAt |-> Unset, contactedBy |-> ""]

NoCustomer ==
    [id |-> 0, phoneNumber |-> <<>>, name |-> "", totalVisits |-> 0,
     firstVisitDate |-> Unset, lastVisitDate |-> Unset, visits |-> <<>>]

\* new FeedbackModel({ name, phoneNumber, visits: [visit] })
NewFeedback(id, input, visit) ==
    [id |-> id, name |-> input.name, phoneNumber |-> input.phoneNumber,
     visits |-> <<visit>>, contactedAt |-> Unset, contactedBy |-> ""]

\* As NewCustomerCard, without visits: [feedback._id].
NewCustomerCardWithoutVisits(id, input, now, feedbackId) ==
    [id |-> id, phoneNumber |-> input.phoneNumber, name |-> input.name, totalVisits |-> 1,
     firstVisitDate |-> now, lastVisitDate |-> now, visits |-> <<>>]

\* new CustomerCardModel({ ... totalVisits: 1 ... })
NewCustomerCard(id, input, now, feedbackId) ==
    [id |-> id, phoneNumber |-> input.phoneNumber, name |-> input.name, totalVisits |-> 1,
     firstVisitDate |-> now, lastVisitDate |-> now, visits |-> <<feedbackId>>]

\* Positions of the documents of a collection with a phone number.
Matching(coll, phone) == {i \in 1..Len(coll) : coll[i].phoneNumber = phone}

\* Model.findOne({ phoneNumber }): the first match in natural order, or null.
FindOne(coll, phone, none) ==
    IF Matching(coll, phone) = {} THEN none
    ELSE coll[CHOOSE i \in Matching(coll, phone) : \A j \in Matching(coll, phone) : i <= j]

\* As FeedbackInsertRefused, the index declared without unique: true.
FeedbackInsertNeverRefused(coll, doc) == FALSE

\* As CustomerInsertRefused, the index declared without unique: true.
CustomerInsertNeverRefused(coll, card) == FALSE

\* FeedbackSchema.index({ phoneNumber: 1 }, { unique: true }): whether the
\* index refuses the insert of a document with E11000.
FeedbackInsertRefused(coll, doc) == Matching(coll, doc.phoneNumber) # {}

\* CustomerCardSchema.index({ phoneNumber: 1 }, { unique: true })
CustomerInsertRefused(coll, card) == Matching(coll, card.phoneNumber) # {}

(***************************** requests ************************************)
IdleReq ==
    [pc |-> "idle", input |-> BaseBody, now |-> 0,
     feedback |-> NoFeedback, customerCard |-> NoCustomer,
     isNew |-> FALSE, isNewCard |-> FALSE, modified |-> {}]

InFlight(r) == req[r].pc # "idle"

\* An answer of the route: the status, the error caught (if any), the await
\* that threw it, and for a 400 the body whose first issue it reports.
NoAnswer ==
    [status |-> 0, err |-> NoError, failedAt |-> "none", input |-> BaseBody, field |-> ""]

\* field: err.errors[0].path.join('.') of the 400 answer.
Answer(input, err, at) ==
    [status |-> IF err = NoError THEN 201 ELSE CatchStatus(err),
     err |-> err, failedAt |-> at,
     input |-> IF err = ZodError THEN input ELSE BaseBody,
     field |-> IF err = ZodError THEN Issues(input)[1] ELSE ""]

(***************************** admin requests ******************************)
\* Browser sessions (cookies of express-session); none is authenticated when
\* the server starts, the MemoryStore being empty.
Sessions == {"s1", "s2"}

\* The query of GET list-feedback as the route hands it to getFeedback: page
\* and limit as numbers, search as a sequence of characters (empty: none),
\* date as a sequence of at most one dateKey (empty: none).
DefaultPage == 1
DefaultLimit == 20

NoFilters == [page |-> DefaultPage, limit |-> DefaultLimit, search |-> <<>>, date |-> <<>>]

\* No list-feedback request is being served.  after: history, the number of
\* submissions answered 201 before the request was received.
IdleList ==
    [pc |-> "idle", session |-> "s1", filters |-> NoFilters,
     found |-> FALSE, data |-> <<>>, counted |-> FALSE, total |-> 0, after |-> 0]

\* stats[0] || { total: 0, contacted: 0, ... }: the result of the first
\* aggregate when the window holds no visit.
NoStats == [total |-> 0, contacted |-> 0, sums |-> [c \in CategorySet |-> 0]]

\* No analytics request is being served.
IdleAnalytics ==
    [pc |-> "idle", session |-> "s1", period |-> "week", startDate |-> 0, stats |-> NoStats]

\* An answer of an auth or admin route: the route, the session of the request,
\* the status, the arguments of the request and the JSON body.
NoReply == [route |-> "none", session |-> "s1", status |-> 0, args |-> <<>>, body |-> <<>>]

Reply(route, s, status, args, body) ==
    [route |-> route, session |-> s, status |-> status, args |-> args, body |-> body]

\* The state of the admin side when the server starts.
AdminIdle ==
    /\ authed = [s \in Sessions |-> FALSE]
    /\ list = IdleList
    /\ analytics = IdleAnalytics
    /\ reply = NoReply
    /\ calls = 0
    /\ contacts = {}

\* The collections outlive the server.  At start they are empty, or they hold
\* what one submission of BaseBody at time 0 has left in them.
EarlierStore ==
    [feedbacks |-> <<NewFeedback(1, BaseBody, NewVisit(BaseBody, 0))>>,
     customers |-> <<NewCustomerCard(2, BaseBody, 0, 1)>>,
     nextId |-> 3,
     accepted |-> <<[phoneNumber |-> BaseBody.phoneNumber, name |-> BaseBody.name, now |-> 0]>>]

EmptyStore == [feedbacks |-> <<>>, customers |-> <<>>, nextId |-> 1, accepted |-> <<>>]

\* The analytics windows, in days.
WeekDays == 7
MonthDays == 30

\* What one submission of BaseBody a week before time 0 has left.
AgedStore ==
    [feedbacks |-> <<NewFeedback(1, BaseBody, NewVisit(BaseBody, 0 - WeekDays * TicksPerDay))>>,
     customers |-> <<NewCustomerCard(2, BaseBody, 0 - WeekDays * TicksPerDay, 1)>>,
     nextId |-> 3,
     accepted |-> <<[phoneNumber |-> BaseBody.phoneNumber, name |-> BaseBody.name,
                     now |-> 0 - WeekDays * TicksPerDay]>>]

\* What three submissions have left: customer A a week before time 0 and at
\* time 0, customer B at time 0.
RegularsStore ==
    [feedbacks |->
        <<[NewFeedback(1, BaseBody, NewVisit(BaseBody, 0 - WeekDays * TicksPerDay))
              EXCEPT !.visits = Append(@, NewVisit(BaseBody, 0))],
          NewFeedback(3, OtherPhoneBody, NewVisit(OtherPhoneBody, 0))>>,
     customers |->
        <<[NewCustomerCard(2, BaseBody, 0 - WeekDays * TicksPerDay, 1)
              EXCEPT !.totalVisits = 2, !.lastVisitDate = 0, !.visits = <<1, 1>>],
          NewCustomerCard(4, OtherPhoneBody, 0, 3)>>,
     nextId |-> 5,
     accepted |->
        <<[phoneNumber |-> PhoneA, name |-> "A", now |-> 0 - WeekDays * TicksPerDay],
          [phoneNumber |-> PhoneA, name |-> "A", now |-> 0],
          [phoneNumber |-> PhoneB, name |-> "A", now |-> 0]>>]

Init ==
    /\ clock = 0
    /\ \E store \in {EmptyStore, EarlierStore} :
        /\ feedbacks = store.feedbacks
        /\ customers = store.customers
        /\ nextId = store.nextId
        /\ accepted = store.accepted
    /\ req = [r \in Reqs |-> IdleReq]
    /\ answer = NoAnswer
    /\ started = 0
    /\ marked = 0
    /\ AdminIdle

\* Time passes.
Tick ==
    /\ clock < MaxClock
    /\ clock' = clock + 1
    /\ UNCHANGED <<feedbacks, customers, nextId, req, answer, accepted, started, marked>>
    /\ UNCHANGED adminVars

\* As Create, with createFeedback called on the raw body before the body is
\* parsed: a body that fails validation is answered 400 and stored all the same.
CreateThenParse(r, body) ==
    /\ ~InFlight(r)
    /\ started < MaxSubmits
    /\ started' = started + 1
    /\ req' = [req EXCEPT ![r] =
            [IdleReq EXCEPT !.pc = "findFeedback", !.input = body, !.now = clock]]
    /\ IF ParseOk(body)
       THEN UNCHANGED answer
       ELSE answer' = Answer(body, ZodError, "parse")
    /\ UNCHANGED <<clock, feedbacks, customers, nextId, accepted, marked>>
    /\ UNCHANGED adminVars

\* POST create-feedback arrives: the body is parsed; a ZodError is answered
\* 400, otherwise createFeedback takes the time and asks for the Feedback.
Create(r, body) ==
    /\ ~InFlight(r)
    /\ started < MaxSubmits
    /\ started' = started + 1
    /\ IF ParseOk(body)
       THEN /\ req' = [req EXCEPT ![r] =
                    [IdleReq EXCEPT !.pc = "findFeedback", !.input = body, !.now = clock]]
            /\ UNCHANGED answer
       ELSE /\ answer' = Answer(body, ZodError, "parse")
            /\ UNCHANGED req
    /\ UNCHANGED <<clock, feedbacks, customers, nextId, accepted, marked>>
    /\ UNCHANGED adminVars

\* As alreadySubmittedToday, comparing the visit's createdAt (a Date) with the
\* dateKey (a string), which === never finds equal.
alreadySubmittedAtDate(feedback, dateKey) ==
    \E i \in 1..Len(feedback.visits) : FALSE

\* (feedback.visits || []).some(v => v.dateKey === dateKey)
alreadySubmittedToday(feedback, dateKey) ==
    \E i \in 1..Len(feedback.visits) : feedback.visits[i].dateKey = dateKey

\* As FindFeedback, with the push and the save done before the duplicate
\* check: the visit is stored and then "Already submitted today" is thrown.
FindFeedbackSavesFirst(r) ==
    /\ req[r].pc = "findFeedback"
    /\ LET found == FindOne(feedbacks, req[r].input.phoneNumber, NoFeedback)
           visit == NewVisit(req[r].input, req[r].now)
       IN  IF found.id # 0
           THEN /\ IF alreadySubmittedToday(found, DateKey(req[r].now))
                   THEN /\ answer' = Answer(req[r].input, DuplicateKeyError, "findFeedback")
                        /\ req' = [req EXCEPT ![r] = IdleReq]
                        /\ feedbacks' = [i \in 1..Len(feedbacks) |->
                                IF feedbacks[i].id = found.id
                                THEN [feedbacks[i] EXCEPT !.visits = Append(@, visit)]
                                ELSE feedbacks[i]]
                   ELSE /\ req' = [req EXCEPT ![r].pc = "saveFeedback",
                                              ![r].isNew = FALSE,
                                              ![r].feedback = [found EXCEPT !.visits = Append(@, visit)]]
                        /\ UNCHANGED <<answer, feedbacks>>
                /\ UNCHANGED nextId
           ELSE /\ req' = [req EXCEPT ![r].pc = "saveFeedback",
                                      ![r].isNew = TRUE,
                                      ![r].feedback = NewFeedback(nextId, req[r].input, visit)]
                /\ nextId' = nextId + 1
                /\ UNCHANGED <<answer, feedbacks>>
    /\ UNCHANGED <<clock, customers, accepted, started, marked>>
    /\ UNCHANGED adminVars

\* await FeedbackModel.findOne({ phoneNumber }), then the duplicate check and
\* the push onto the document in memory, or the construction of a new
\* document.  Nothing is written.
FindFeedback(r) ==
    /\ req[r].pc = "findFeedback"
    /\ LET found == FindOne(feedbacks, req[r].input.phoneNumber, NoFeedback)
           visit == NewVisit(req[r].input, req[r].now)
       IN  IF found.id # 0
           THEN /\ IF alreadySubmittedToday(found, DateKey(req[r].now))
                   THEN /\ answer' = Answer(req[r].input, DuplicateKeyError, "findFeedback")
                        /\ req' = [req EXCEPT ![r] = IdleReq]
                   ELSE /\ req' = [req EXCEPT ![r].pc = "saveFeedback",
                                              ![r].isNew = FALSE,
                                              ![r].feedback = [found EXCEPT !.visits = Append(@, visit)]]
                        /\ UNCHANGED answer
                /\ UNCHANGED nextId
           ELSE /\ req' = [req EXCEPT ![r].pc = "saveFeedback",
                                      ![r].isNew = TRUE,
                                      ![r].feedback = NewFeedback(nextId, req[r].input, visit)]
                /\ nextId' = nextId + 1
                /\ UNCHANGED answer
    /\ UNCHANGED <<clock, feedbacks, customers, accepted, started, marked>>
    /\ UNCHANGED adminVars

\* As FeedbackSaved, with contactedAt and contactedBy cleared when a visit
\* is added to a stored document.
FeedbackSavedReopens(coll, doc, isNew) ==
    IF isNew
    THEN Append(coll, doc)
    ELSE [i \in 1..Len(coll) |->
            IF coll[i].id = doc.id
            THEN [coll[i] EXCEPT !.visits = Append(@, doc.visits[Len(doc.visits)]),
                                 !.contactedAt = Unset,
                                 !.contactedBy = ""]
            ELSE coll[i]]

\* As FeedbackSaved, with the store refusing to push a visit of a date of
\* which the stored document already holds one.
FeedbackSavedOncePerDate(coll, doc, isNew) ==
    IF isNew
    THEN Append(coll, doc)
    ELSE [i \in 1..Len(coll) |->
            IF /\ coll[i].id = doc.id
               /\ \A j \in 1..Len(coll[i].visits) :
                    coll[i].visits[j].dateKey # doc.visits[Len(doc.visits)].dateKey
            THEN [coll[i] EXCEPT !.visits = Append(@, doc.visits[Len(doc.visits)])]
            ELSE coll[i]]

\* What feedback.save() leaves in the collection: an insert of a new document,
\* or a $push of the new visit onto the stored document.
FeedbackSaved(coll, doc, isNew) ==
    IF isNew
    THEN Append(coll, doc)
    ELSE [i \in 1..Len(coll) |->
            IF coll[i].id = doc.id
            THEN [coll[i] EXCEPT !.visits = Append(@, doc.visits[Len(doc.visits)])]
            ELSE coll[i]]

\* As SaveFeedback, with a duplicate-key error of the insert swallowed: the
\* request goes on to the Customer step without having written its visit.
SaveFeedbackContinues(r) ==
    /\ req[r].pc = "saveFeedback"
    /\ LET doc == req[r].feedback IN
        IF ~VisitSchemaOk(doc.visits[Len(doc.visits)])
        THEN /\ answer' = Answer(req[r].input, StoreError, "saveFeedback")
             /\ req' = [req EXCEPT ![r] = IdleReq]
             /\ UNCHANGED feedbacks
        ELSE IF req[r].isNew /\ FeedbackInsertRefused(feedbacks, doc)
        THEN /\ req' = [req EXCEPT ![r].pc = "findCustomer"]
             /\ UNCHANGED <<answer, feedbacks>>
        ELSE /\ feedbacks' = FeedbackSaved(feedbacks, doc, req[r].isNew)
             /\ req' = [req EXCEPT ![r].pc = "findCustomer"]
             /\ UNCHANGED answer
    /\ UNCHANGED <<clock, customers, nextId, accepted, started, marked>>
    /\ UNCHANGED adminVars

\* await feedback.save()
SaveFeedback(r) ==
    /\ req[r].pc = "saveFeedback"
    /\ LET doc == req[r].feedback IN
        IF ~VisitSchemaOk(doc.visits[Len(doc.visits)])
        THEN /\ answer' = Answer(req[r].input, StoreError, "saveFeedback")
             /\ req' = [req EXCEPT ![r] = IdleReq]
             /\ UNCHANGED feedbacks
        ELSE IF req[r].isNew /\ FeedbackInsertRefused(feedbacks, doc)
        THEN /\ answer' = Answer(req[r].input, DuplicateKeyError, "saveFeedback")
             /\ req' = [req EXCEPT ![r] = IdleReq]
             /\ UNCHANGED feedbacks
        ELSE /\ feedbacks' = FeedbackSaved(feedbacks, doc, req[r].isNew)
             /\ req' = [req EXCEPT ![r].pc = "findCustomer"]
             /\ UNCHANGED answer
    /\ UNCHANGED <<clock, customers, nextId, accepted, started, marked>>
    /\ UNCHANGED adminVars

\* As UpdatedCard, with customerCard.name = insertFeedback.name added.
UpdatedCardWithName(card, insertFeedback, now, feedbackId) ==
    LET has == \E i \in 1..Len(card.visits) : card.visits[i] = feedbackId IN
    [doc |-> [card EXCEPT !.name = insertFeedback.name,
                          !.totalVisits = @ + 1,
                          !.lastVisitDate = now,
                          !.visits = IF has THEN @ ELSE Append(@, feedbackId)],
     modified |-> {"name", "totalVisits", "lastVisitDate"} \cup (IF has THEN {} ELSE {"visits"})]

\* As UpdatedCard, without lastVisitDate = now.
UpdatedCardKeepsLastVisit(card, insertFeedback, now, feedbackId) ==
    LET has == \E i \in 1..Len(card.visits) : card.visits[i] = feedbackId IN
    [doc |-> [card EXCEPT !.totalVisits = @ + 1,
                          !.visits = IF has THEN @ ELSE Append(@, feedbackId)],
     modified |-> {"totalVisits"} \cup (IF has THEN {} ELSE {"visits"})]

\* The card in memory after the update branch, and the paths it marks
\* modified: totalVisits += 1, lastVisitDate = now, and the reference pushed
\* unless it is there.
UpdatedCard(card, insertFeedback, now, feedbackId) ==
    LET has == \E i \in 1..Len(card.visits) : card.visits[i] = feedbackId IN
    [doc |-> [card EXCEPT !.totalVisits = @ + 1,
                          !.lastVisitDate = now,
                          !.visits = IF has THEN @ ELSE Append(@, feedbackId)],
     modified |-> {"totalVisits", "lastVisitDate"} \cup (IF has THEN {} ELSE {"visits"})]

\* As FindCustomer, with totalVisits set to the number of visits of the
\* Feedback the request has saved, instead of counted up by one.
FindCustomerRecounts(r) ==
    /\ req[r].pc = "findCustomer"
    /\ LET found == FindOne(customers, req[r].input.phoneNumber, NoCustomer)
           fid == req[r].feedback.id
           upd == UpdatedCard(found, req[r].input, req[r].now, fid)
           visits == Len(req[r].feedback.visits)
       IN  IF found.id # 0
           THEN /\ req' = [req EXCEPT ![r].pc = "saveCustomer",
                                      ![r].isNewCard = FALSE,
                                      ![r].modified = upd.modified,
                                      ![r].customerCard = [upd.doc EXCEPT !.totalVisits = visits]]
                /\ UNCHANGED nextId
           ELSE /\ req' = [req EXCEPT ![r].pc = "saveCustomer",
                                      ![r].isNewCard = TRUE,
                                      ![r].customerCard =
                                          [NewCustomerCard(nextId, req[r].input, req[r].now, fid)
                                              EXCEPT !.totalVisits = visits]]
                /\ nextId' = nextId + 1
    /\ UNCHANGED <<clock, feedbacks, customers, answer, accepted, started, marked>>
    /\ UNCHANGED adminVars

\* await CustomerCardModel.findOne({ phoneNumber }), then the update of the
\* card in memory or the construction of a new one.
FindCustomer(r) ==
    /\ req[r].pc = "findCustomer"
    /\ LET found == FindOne(customers, req[r].input.phoneNumber, NoCustomer)
           fid == req[r].feedback.id
           upd == UpdatedCard(found, req[r].input, req[r].now, fid)
       IN  IF found.id # 0
           THEN /\ req' = [req EXCEPT ![r].pc = "saveCustomer",
                                      ![r].isNewCard = FALSE,
                                      ![r].modified = upd.modified,
                                      ![r].customerCard = upd.doc]
                /\ UNCHANGED nextId
           ELSE /\ req' = [req EXCEPT ![r].pc = "saveCustomer",
                                      ![r].isNewCard = TRUE,
                                      ![r].customerCard =
                                          NewCustomerCard(nextId, req[r].input, req[r].now, fid)]
                /\ nextId' = nextId + 1
    /\ UNCHANGED <<clock, feedbacks, customers, answer, accepted, started, marked>>
    /\ UNCHANGED adminVars

\* What customerCard.save() leaves in the collection: an insert, or an update
\* of the stored card by _id with a $set of each modified path and a $push of
\* the reference when one was pushed.
CustomerSaved(coll, card, isNewCard, modified) ==
    IF isNewCard
    THEN Append(coll, card)
    ELSE [i \in 1..Len(coll) |->
            IF coll[i].id = card.id
            THEN [coll[i] EXCEPT
                    !.name = IF "name" \in modified THEN card.name ELSE @,
                    !.totalVisits = IF "totalVisits" \in modified THEN card.totalVisits ELSE @,
                    !.firstVisitDate =
                        IF "firstVisitDate" \in modified THEN card.firstVisitDate ELSE @,
                    !.lastVisitDate =
                        IF "lastVisitDate" \in modified THEN card.lastVisitDate ELSE @,
                    !.visits = IF "visits" \in modified
                               THEN Append(@, card.visits[Len(card.visits)])
                               ELSE @]
            ELSE coll[i]]

\* Mongoose CustomerCardSchema validators, run by save()
CustomerCardSchemaOk(card) == PhoneRegex(card.phoneNumber) /\ Len(card.name) >= 1

\* The entry of the history for a request answered 201.
Accepted(r) ==
    [phoneNumber |-> req[r].input.phoneNumber, name |-> req[r].input.name,
     now |-> req[r].now]

\* await customerCard.save(), then the 201 answer.
SaveCustomer(r) ==
    /\ req[r].pc = "saveCustomer"
    /\ LET card == req[r].customerCard IN
        IF ~CustomerCardSchemaOk(card)
        THEN /\ answer' = Answer(req[r].input, StoreError, "saveCustomer")
             /\ UNCHANGED <<customers, accepted>>
        ELSE IF req[r].isNewCard /\ CustomerInsertRefused(customers, card)
        THEN /\ answer' = Answer(req[r].input, DuplicateKeyError, "saveCustomer")
             /\ UNCHANGED <<customers, accepted>>
        ELSE /\ customers' = CustomerSaved(customers, card, req[r].isNewCard, req[r].modified)
             /\ answer' = Answer(req[r].input, NoError, "none")
             /\ accepted' = Append(accepted, Accepted(r))
    /\ req' = [req EXCEPT ![r] = IdleReq]
    /\ UNCHANGED <<clock, feedbacks, nextId, started, marked>>
    /\ UNCHANGED adminVars

\* As StoreFailure, with a compensation: when the failure comes after the
\* Feedback write, the visit of the request is taken out of the Feedback again
\* and a Feedback left without visits is deleted.
StoreFailureRollsBack(r) ==
    /\ InFlight(r)
    /\ answer' = Answer(req[r].input, StoreError, req[r].pc)
    /\ req' = [req EXCEPT ![r] = IdleReq]
    /\ feedbacks' =
         IF req[r].pc \in {"findCustomer", "saveCustomer"}
         THEN SelectSeq([i \in 1..Len(feedbacks) |->
                            IF feedbacks[i].id = req[r].feedback.id
                            THEN [feedbacks[i] EXCEPT
                                    !.visits = SelectSeq(@, LAMBDA v : v.createdAt # req[r].now)]
                            ELSE feedbacks[i]],
                        LAMBDA doc : Len(doc.visits) > 0)
         ELSE feedbacks
    /\ UNCHANGED <<clock, customers, nextId, accepted, started, marked>>
    /\ UNCHANGED adminVars

\* An await of createFeedback rejects (the store is unavailable): the route
\* answers 500 and nothing already written is undone.
StoreFailure(r) ==
    /\ InFlight(r)
    /\ answer' = Answer(req[r].input, StoreError, req[r].pc)
    /\ req' = [req EXCEPT ![r] = IdleReq]
    /\ UNCHANGED <<clock, feedbacks, customers, nextId, accepted, started, marked>>
    /\ UNCHANGED adminVars

StaffNames == {"Ravi", "Meena"}

\* As Contacted, keeping the first contact: a document that has contactedAt
\* is left as it is.
ContactedOnce(coll, id, contactedBy, now) ==
    [i \in 1..Len(coll) |->
        IF coll[i].id = id /\ coll[i].contactedAt = Unset
        THEN [coll[i] EXCEPT !.contactedBy = contactedBy, !.contactedAt = now]
        ELSE coll[i]]

\* FeedbackModel.findByIdAndUpdate(id, { contactedBy, contactedAt: new Date() })
Contacted(coll, id, contactedBy, now) ==
    [i \in 1..Len(coll) |->
        IF coll[i].id = id
        THEN [coll[i] EXCEPT !.contactedBy = contactedBy, !.contactedAt = now]
        ELSE coll[i]]

\* markContacted(id, { contactedBy }): one atomic update; an id that matches
\* nothing updates nothing.
MarkContacted(id, contactedBy) ==
    /\ marked < MaxMarks
    /\ marked' = marked + 1
    /\ feedbacks' = Contacted(feedbacks, id, contactedBy, clock)
    /\ UNCHANGED <<clock, customers, nextId, req, answer, accepted, started>>
    /\ UNCHANGED adminVars

(***************************** auth ****************************************)
\* The credentials the model sends to login.
Usernames == {"admin", "root"}
Passwords == {"shreerath_admin_2026", "admin"}

\* The LocalStrategy's verify function: the hard-coded admin pair.
Verify(username, password) == username = "admin" /\ password = "shreerath_admin_2026"

\* POST login: passport.authenticate("local"), then req.logIn on success.
Login(s, username, password) ==
    /\ calls < MaxCalls
    /\ calls' = calls + 1
    /\ IF Verify(username, password)
       THEN /\ authed' = [authed EXCEPT ![s] = TRUE]
            /\ reply' = Reply("login", s, 200, [username |-> username, password |-> password], <<>>)
       ELSE /\ reply' = Reply("login", s, 401, [username |-> username, password |-> password], <<>>)
            /\ UNCHANGED authed
    /\ UNCHANGED <<clock, feedbacks, customers, nextId, req, answer, accepted, started, marked>>
    /\ UNCHANGED <<list, analytics, contacts>>

\* POST logout: req.logout
Logout(s) ==
    /\ calls < MaxCalls
    /\ calls' = calls + 1
    /\ authed' = [authed EXCEPT ![s] = FALSE]
    /\ reply' = Reply("logout", s, 200, <<>>, <<>>)
    /\ UNCHANGED <<clock, feedbacks, customers, nextId, req, answer, accepted, started, marked>>
    /\ UNCHANGED <<list, analytics, contacts>>

(***************************** mark contacted ******************************)
\* req.params.id is any string.  The ids 1, 2, ... stand for ObjectId strings;
\* MalformedId stands for a string that is no ObjectId (say "abc"), which
\* Mongoose refuses to cast when it builds the query.
MalformedId == 0

IsObjectId(id) == id # MalformedId

\* contactUpdateSchema: contactedBy is a string of at least one character.
ContactUpdateOk(body) == Len(body.contactedBy) >= 1

ContactBodies == [contactedBy : StaffNames \cup {""}]

\* As MapDocument, with the first visit alone, as for a document of the old
\* flat schema.
MapDocumentFirstVisit(doc) ==
    [id |-> doc.id, name |-> doc.name, phoneNumber |-> doc.phoneNumber,
     contactedAt |-> doc.contactedAt, contactedBy |-> doc.contactedBy,
     visits |-> SubSeq(doc.visits, 1, 1)]

\* mapDocument: the stored document as the API returns it.
MapDocument(doc) ==
    [id |-> doc.id, name |-> doc.name, phoneNumber |-> doc.phoneNumber,
     contactedAt |-> doc.contactedAt, contactedBy |-> doc.contactedBy,
     visits |-> [i \in 1..Len(doc.visits) |->
                    [location |-> doc.visits[i].location, dineType |-> doc.visits[i].dineType,
                     ratings |-> doc.visits[i].ratings, noteLen |-> doc.visits[i].noteLen,
                     createdAt |-> doc.visits[i].createdAt, dateKey |-> doc.visits[i].dateKey]]]

\* Model.findById(id): the document of a collection with an _id, or null.
FindById(coll, id, none) ==
    IF \E i \in 1..Len(coll) : coll[i].id = id
    THEN coll[CHOOSE i \in 1..Len(coll) : coll[i].id = id]
    ELSE none

\* The history after a markContacted call that found its Feedback: for each
\* Feedback id the values of the last call and the values it has overwritten.
Recorded(history, doc, contactedBy, now) ==
    {c \in history : c.id # doc.id}
        \cup {[id |-> doc.id, contactedBy |-> contactedBy, at |-> now,
               before |-> [contactedBy |-> doc.contactedBy, contactedAt |-> doc.contactedAt]]}

\* As PatchContacted, without requireAuth in the route.
PatchContactedOpen(s, id, body) ==
    /\ calls < MaxCalls
    /\ calls' = calls + 1
    /\ LET args == [id |-> id, contactedBy |-> body.contactedBy] IN
       IF ~ContactUpdateOk(body)
       THEN /\ reply' = Reply("markContacted", s, 400, args, <<>>)
            /\ UNCHANGED <<feedbacks, contacts>>
       ELSE IF ~IsObjectId(id)
       THEN /\ reply' = Reply("markContacted", s, 500, args, <<>>)
            /\ UNCHANGED <<feedbacks, contacts>>
       ELSE IF FindById(feedbacks, id, NoFeedback).id = 0
       THEN /\ reply' = Reply("markContacted", s, 404, args, <<>>)
            /\ UNCHANGED <<feedbacks, contacts>>
       ELSE /\ feedbacks' = Contacted(feedbacks, id, body.contactedBy, clock)
            /\ reply' = Reply("markContacted", s, 200, args,
                              MapDocument(FindById(feedbacks', id, NoFeedback)))
            /\ contacts' = Recorded(contacts, FindById(feedbacks, id, NoFeedback),
                                     body.contactedBy, clock)
    /\ UNCHANGED <<clock, customers, nextId, req, answer, accepted, started, marked>>
    /\ UNCHANGED <<authed, list, analytics>>

\* PATCH mark-contacted: requireAuth (401), the body parsed (400), then
\* storage.markContacted: a CastError for an id that is no ObjectId (500),
\* null when no Feedback has the id (404), else the updated document (200).
PatchContacted(s, id, body) ==
    /\ calls < MaxCalls
    /\ calls' = calls + 1
    /\ LET args == [id |-> id, contactedBy |-> body.contactedBy] IN
       IF ~authed[s]
       THEN /\ reply' = Reply("markContacted", s, 401, args, <<>>)
            /\ UNCHANGED <<feedbacks, contacts>>
       ELSE IF ~ContactUpdateOk(body)
       THEN /\ reply' = Reply("markContacted", s, 400, args, <<>>)
            /\ UNCHANGED <<feedbacks, contacts>>
       ELSE IF ~IsObjectId(id)
       THEN /\ reply' = Reply("markContacted", s, 500, args, <<>>)
            /\ UNCHANGED <<feedbacks, contacts>>
       ELSE IF FindById(feedbacks, id, NoFeedback).id = 0
       THEN /\ reply' = Reply("markContacted", s, 404, args, <<>>)
            /\ UNCHANGED <<feedbacks, contacts>>
       ELSE /\ feedbacks' = Contacted(feedbacks, id, body.contactedBy, clock)
            /\ reply' = Reply("markContacted", s, 200, args,
                              MapDocument(FindById(feedbacks', id, NoFeedback)))
            /\ contacts' = Recorded(contacts, FindById(feedbacks, id, NoFeedback),
                                     body.contactedBy, clock)
    /\ UNCHANGED <<clock, customers, nextId, req, answer, accepted, started, marked>>
    /\ UNCHANGED <<authed, list, analytics>>

(***************************** list feedback *******************************)
\* The characters of a name; the names of the model have at most one.
Letters(name) == [i \in 1..Len(name) |-> name]

\* $options: 'i'
Fold(chars) ==
    [i \in 1..Len(chars) |->
        CASE chars[i] = "A" -> "a"
          [] chars[i] = "B" -> "b"
          [] OTHER -> chars[i]]

\* $regex with a pattern of plain characters: the pattern occurs in the text.
Contains(text, pattern) ==
    \E k \in 0..(Len(text) - Len(pattern)) :
        \A i \in 1..Len(pattern) : text[k + i] = pattern[i]

\* The query of getFeedback: $or of the two regexes when search is given,
\* "visits.dateKey" = date when date is given.
Matches(doc, filters) ==
    /\ \/ filters.search = <<>>
       \/ Contains(Fold(Letters(doc.name)), Fold(filters.search))
       \/ Contains(Fold(doc.phoneNumber), Fold(filters.search))
    /\ \/ filters.date = <<>>
       \/ \E i \in 1..Len(doc.visits) : doc.visits[i].dateKey = filters.date[1]

\* The key of the sort { "visits.createdAt": -1 }: for a descending sort on an
\* array field, the greatest element.  Every stored Feedback has a visit.
Newest(doc) ==
    LET times == {doc.visits[i].createdAt : i \in 1..Len(doc.visits)}
    IN  CHOOSE t \in times : \A u \in times : u <= t

\* FeedbackModel.find(query).sort({ "visits.createdAt": -1 }): the matching
\* documents, most recent visit first; documents with equal keys come in
\* either order.
Found(coll, filters) ==
    LET hits == {i \in 1..Len(coll) : Matches(coll[i], filters)}
        orders == {o \in [1..Cardinality(hits) -> hits] :
                    /\ \A i, j \in 1..Cardinality(hits) : i # j => o[i] # o[j]
                    /\ \A i, j \in 1..Cardinality(hits) :
                            i < j => Newest(coll[o[i]]) >= Newest(coll[o[j]])}
    IN  {[i \in 1..Cardinality(hits) |-> coll[o[i]]] : o \in orders}

\* FeedbackModel.countDocuments(query)
Counted(coll, filters) == Cardinality({i \in 1..Len(coll) : Matches(coll[i], filters)})

\* As DateFiltered, dropping the documents without a matching visit and
\* leaving the visits of the others as they are.
DateFilteredKeepsVisits(results, date) ==
    SelectSeq(results, LAMBDA fb : \E i \in 1..Len(fb.visits) : fb.visits[i].dateKey = date)

\* results.map(feedback => ({...feedback, visits: feedback.visits.filter(
\* v => v.dateKey === filters.date)})).filter(feedback => feedback.visits.length > 0)
DateFiltered(results, date) ==
    SelectSeq([k \in 1..Len(results) |->
                  [results[k] EXCEPT !.visits = SelectSeq(@, LAMBDA v : v.dateKey = date)]],
              LAMBDA fb : Len(fb.visits) > 0)

\* As Skip, with the pages counted from 0.
SkipFromZero(filters) == filters.page * filters.limit

\* skip = (filters.page - 1) * filters.limit
Skip(filters) == (filters.page - 1) * filters.limit

\* Array.prototype.slice(start, end): a negative index counts from the end,
\* and both are clamped to the array.
Slice(seq, start, end) ==
    LET Clamp(k) == IF k < 0
                    THEN (IF Len(seq) + k < 0 THEN 0 ELSE Len(seq) + k)
                    ELSE (IF k > Len(seq) THEN Len(seq) ELSE k)
    IN  SubSeq(seq, Clamp(start) + 1, Clamp(end))

\* Math.ceil(total / limit) for limit > 0
Pages(total, limit) == (total + limit - 1) \div limit

\* What getFeedback returns from the answers to its two queries, and the
\* body the route makes of it.
ListBody(filters, data, total) ==
    LET mapped == [k \in 1..Len(data) |-> MapDocument(data[k])]
        results == IF filters.date # <<>> THEN DateFiltered(mapped, filters.date[1]) ELSE mapped
        count == IF filters.date # <<>> THEN Len(results) ELSE total
    IN  [data |-> Slice(results, Skip(filters), Skip(filters) + filters.limit),
         pagination |-> [total |-> count, page |-> filters.page, limit |-> filters.limit,
                         pages |-> Pages(count, filters.limit)]]

\* GET list-feedback arrives: requireAuth (401); otherwise getFeedback builds
\* the query and sends find and countDocuments to the store together.
ListFeedback(s, filters) ==
    /\ list.pc = "idle"
    /\ calls < MaxCalls
    /\ calls' = calls + 1
    /\ IF ~authed[s]
       THEN /\ reply' = Reply("list", s, 401, filters, <<>>)
            /\ UNCHANGED list
       ELSE /\ list' = [IdleList EXCEPT !.pc = "reading", !.session = s, !.filters = filters,
                                        !.after = Len(accepted)]
            /\ reply' = NoReply
    /\ UNCHANGED <<clock, feedbacks, customers, nextId, req, answer, accepted, started, marked>>
    /\ UNCHANGED <<authed, analytics, contacts>>

\* storage.getFeedback(filters), called as the route calls it once
\* requireAuth has let the request through.
GetFeedback(filters) ==
    /\ list.pc = "idle"
    /\ calls < MaxCalls
    /\ calls' = calls + 1
    /\ list' = [IdleList EXCEPT !.pc = "reading", !.filters = filters, !.after = Len(accepted)]
    /\ reply' = NoReply
    /\ UNCHANGED <<clock, feedbacks, customers, nextId, req, answer, accepted, started, marked>>
    /\ UNCHANGED <<authed, analytics, contacts>>

\* As ListFind, with the date-filtered documents saved back.
ListFindSavesFiltered ==
    /\ list.pc = "reading"
    /\ ~list.found
    /\ \E data \in Found(feedbacks, list.filters) :
        /\ IF list.counted
           THEN /\ reply' = Reply("list", list.session, 200, list.filters,
                                  ListBody(list.filters, data, list.total))
                /\ list' = IdleList
           ELSE /\ list' = [list EXCEPT !.found = TRUE, !.data = data]
                /\ UNCHANGED reply
        /\ feedbacks' =
             [i \in 1..Len(feedbacks) |->
                IF list.filters.date # <<>> /\ Matches(feedbacks[i], list.filters)
                THEN [feedbacks[i] EXCEPT
                        !.visits = SelectSeq(@, LAMBDA v : v.dateKey = list.filters.date[1])]
                ELSE feedbacks[i]]
    /\ UNCHANGED <<clock, customers, nextId, req, answer, accepted, started, marked>>
    /\ UNCHANGED <<authed, analytics, calls, contacts>>

\* The find of getFeedback is answered; the route answers 200 when the count
\* has been answered too.
ListFind ==
    /\ list.pc = "reading"
    /\ ~list.found
    /\ \E data \in Found(feedbacks, list.filters) :
        IF list.counted
        THEN /\ reply' = Reply("list", list.session, 200, list.filters,
                               ListBody(list.filters, data, list.total))
             /\ list' = IdleList
        ELSE /\ list' = [list EXCEPT !.found = TRUE, !.data = data]
             /\ UNCHANGED reply
    /\ UNCHANGED <<clock, feedbacks, customers, nextId, req, answer, accepted, started, marked>>
    /\ UNCHANGED <<authed, analytics, calls, contacts>>

\* The countDocuments of getFeedback is answered; the route answers 200 when
\* the find has been answered too.
ListCount ==
    /\ list.pc = "reading"
    /\ ~list.counted
    /\ LET total == Counted(feedbacks, list.filters) IN
        IF list.found
        THEN /\ reply' = Reply("list", list.session, 200, list.filters,
                               ListBody(list.filters, list.data, total))
             /\ list' = IdleList
        ELSE /\ list' = [list EXCEPT !.counted = TRUE, !.total = total]
             /\ UNCHANGED reply
    /\ UNCHANGED <<clock, feedbacks, customers, nextId, req, answer, accepted, started, marked>>
    /\ UNCHANGED <<authed, analytics, calls, contacts>>

\* The queries the model sends: no parameters; a search for a name or for a
\* part of a phone number; a page and a limit; a date with a page and a limit
\* of one or of the default.
SearchTerms == {<<"b">>, <<"9", "8">>}

ListQueries ==
    {NoFilters}
        \cup {[NoFilters EXCEPT !.search = term] : term \in SearchTerms}
        \cup [page : 1..MaxPage, limit : 1..MaxLimit, search : {<<>>}, date : {<<>>}]
        \cup [page : 1..MaxPage, limit : {1, DefaultLimit}, search : {<<>>},
              date : {<<d>> : d \in 0..DateKey(MaxClock)}]

(***************************** analytics ***********************************)
Periods == {"week", "month"}

\* startDate.setDate(now.getDate() - (period === 'week' ? 7 : 30))
StartDate(period, now) ==
    now - (IF period = "week" THEN WeekDays ELSE MonthDays) * TicksPerDay

\* { $unwind: "$visits" }, { $match: { "visits.createdAt": { $gte: startDate } } }:
\* one row <<i, j>> for each visit j of each document i created at or after
\* startDate; the row carries the fields of its parent document.
Unwound(coll, startDate) ==
    {row \in UNION {{<<i, j>> : j \in 1..Len(coll[i].visits)} : i \in 1..Len(coll)} :
        coll[row[1]].visits[row[2]].createdAt >= startDate}

\* The sum of the ratings of a category over the rows, in units: the $avg of
\* the category is this sum over the number of rows, every stored visit
\* having a rating for every category.
RatingSum(coll, rows, c) ==
    Cardinality(UNION {{<<row, k>> : k \in 1..coll[row[1]].visits[row[2]].ratings[c]} :
                            row \in rows})

\* As GroupStats, with contacted counted over all the visits of the
\* collection and only total over those of the window.
GroupStatsContactedEver(coll, startDate) ==
    LET rows == Unwound(coll, startDate)
        all == UNION {{<<i, j>> : j \in 1..Len(coll[i].visits)} : i \in 1..Len(coll)}
    IN  [total |-> Cardinality(rows),
         contacted |-> Cardinality({row \in all : coll[row[1]].contactedAt # Unset}),
         sums |-> [c \in CategorySet |-> RatingSum(coll, rows, c)]]

\* As GroupStats, with contacted the number of parent documents that have
\* contactedAt set and a visit in the window.
GroupStatsByDocument(coll, startDate) ==
    LET rows == Unwound(coll, startDate) IN
    [total |-> Cardinality(rows),
     contacted |-> Cardinality({row[1] : row \in {r \in rows : coll[r[1]].contactedAt # Unset}}),
     sums |-> [c \in CategorySet |-> RatingSum(coll, rows, c)]]

\* $group: { _id: null, total: { $sum: 1 },
\*           contacted: { $sum: { $cond: [{ $ifNull: ["$contactedAt", false] }, 1, 0] } },
\*           avgFoodQuality: { $avg: "$visits.ratings.foodQuality" }, ... }
\* over the rows; no row gives no group, and the defaults of NoStats.  An
\* average is kept as the sum of its ratings, to be divided by total.
GroupStats(coll, startDate) ==
    LET rows == Unwound(coll, startDate) IN
    [total |-> Cardinality(rows),
     contacted |-> Cardinality({row \in rows : coll[row[1]].contactedAt # Unset}),
     sums |-> [c \in CategorySet |-> RatingSum(coll, rows, c)]]

\* As Round, rounding down.
RoundDown(n, d) == n \div d

\* Math.round(n / d) for n >= 0 and d > 0: the nearest integer, a half up.
Round(n, d) == (2 * n + d) \div (2 * d)

\* result.total > 0 ? Math.round((result.contacted / result.total) * 100) : 0
ResponseRate(stats) ==
    IF stats.total > 0 THEN Round(stats.contacted * 100, stats.total) ELSE 0

\* As TopIndex, with val >= maxVal in the loop: the last of the categories
\* with the highest average.
TopIndexLast(stats) ==
    CHOOSE i \in 1..Len(Categories) :
        /\ \A j \in 1..Len(Categories) : stats.sums[Categories[j]] <= stats.sums[Categories[i]]
        /\ \A j \in (i + 1)..Len(Categories) :
                stats.sums[Categories[j]] < stats.sums[Categories[i]]

\* let topCategory = 'foodQuality'; let maxVal = -1; for (const [cat, val] of
\* Object.entries(averages)) if (val > maxVal) { maxVal = val; topCategory = cat }:
\* the position of the first category whose average no other exceeds.  The
\* averages are sums over the same total, and all 0 for an empty window.
TopIndex(stats) ==
    CHOOSE i \in 1..Len(Categories) :
        /\ \A j \in 1..Len(Categories) : stats.sums[Categories[j]] <= stats.sums[Categories[i]]
        /\ \A j \in 1..(i - 1) : stats.sums[Categories[j]] < stats.sums[Categories[i]]

\* topCategory.replace(/([A-Z])/g, ' $1').trim().toLowerCase()
Label(category) ==
    CASE category = "foodQuality" -> "food quality"
      [] category = "foodTaste" -> "food taste"
      [] category = "staffBehavior" -> "staff behavior"
      [] category = "serviceSpeed" -> "service speed"
      [] OTHER -> category

\* As TrendDates, without the $match stage: the dates of all visits.
TrendDatesUnmatched(coll, startDate) ==
    LET dates == UNION {{coll[i].visits[j].dateKey : j \in 1..Len(coll[i].visits)} :
                            i \in 1..Len(coll)}
    IN  CHOOSE q \in [1..Cardinality(dates) -> dates] :
            \A k, m \in 1..Cardinality(dates) : k < m => q[k] < q[m]

\* The second aggregate: the in-window visits grouped by the date of
\* createdAt, { $sort: { _id: 1 } }; the dates of the groups in order.
TrendDates(coll, startDate) ==
    LET dates == {DateKey(coll[row[1]].visits[row[2]].createdAt) : row \in Unwound(coll, startDate)}
    IN  CHOOSE q \in [1..Cardinality(dates) -> dates] :
            \A k, m \in 1..Cardinality(dates) : k < m => q[k] < q[m]

\* The AnalyticsData that getAnalytics returns: the counts and the top
\* category of the first aggregate and the days of the second.
AnalyticsBody(stats, trends) ==
    [totalFeedback |-> stats.total,
     responseRate |-> ResponseRate(stats),
     topCategory |-> Label(Categories[TopIndex(stats)]),
     weeklyTrends |-> [k \in 1..Len(trends) |-> [date |-> trends[k]]],
     feedbackVolume |-> <<[name |-> "Contacted", value |-> stats.contacted],
                          [name |-> "Pending", value |-> stats.total - stats.contacted]>>]

\* GET analytics arrives: requireAuth (401); otherwise getAnalytics takes the
\* time and computes startDate.  period || 'week' is the period of the query.
Analytics(s, period) ==
    /\ analytics.pc = "idle"
    /\ calls < MaxCalls
    /\ calls' = calls + 1
    /\ IF ~authed[s]
       THEN /\ reply' = Reply("analytics", s, 401, [period |-> period], <<>>)
            /\ UNCHANGED analytics
       ELSE /\ analytics' = [IdleAnalytics EXCEPT !.pc = "stats", !.session = s, !.period = period,
                                                  !.startDate = StartDate(period, clock)]
            /\ reply' = NoReply
    /\ UNCHANGED <<clock, feedbacks, customers, nextId, req, answer, accepted, started, marked>>
    /\ UNCHANGED <<authed, list, contacts>>

\* storage.getAnalytics(period), called as the route calls it once
\* requireAuth has let the request through.
GetAnalytics(period) ==
    /\ analytics.pc = "idle"
    /\ calls < MaxCalls
    /\ calls' = calls + 1
    /\ analytics' = [IdleAnalytics EXCEPT !.pc = "stats", !.period = period,
                                         !.startDate = StartDate(period, clock)]
    /\ reply' = NoReply
    /\ UNCHANGED <<clock, feedbacks, customers, nextId, req, answer, accepted, started, marked>>
    /\ UNCHANGED <<authed, list, contacts>>

\* The first aggregate of getAnalytics is answered.
AnalyticsStats ==
    /\ analytics.pc = "stats"
    /\ analytics' = [analytics EXCEPT !.pc = "trends",
                                      !.stats = GroupStats(feedbacks, analytics.startDate)]
    /\ UNCHANGED <<clock, feedbacks, customers, nextId, req, answer, accepted, started, marked>>
    /\ UNCHANGED <<authed, list, reply, calls, contacts>>

\* The second aggregate is answered, and the route answers 200.
AnalyticsTrends ==
    /\ analytics.pc = "trends"
    /\ reply' = Reply("analytics", analytics.session, 200, [period |-> analytics.period],
                      AnalyticsBody(analytics.stats, TrendDates(feedbacks, analytics.startDate)))
    /\ analytics' = IdleAnalytics
    /\ UNCHANGED <<clock, feedbacks, customers, nextId, req, answer, accepted, started, marked>>
    /\ UNCHANGED <<authed, list, calls, contacts>>

(************************** specifications *********************************)
\* Requests overlap freely and the store may fail at any await.
Next ==
    \/ Tick
    \/ \E r \in Reqs, body \in SubmitBodies : Create(r, body)
    \/ \E r \in Reqs : FindFeedback(r)
    \/ \E r \in Reqs : SaveFeedback(r)
    \/ \E r \in Reqs : FindCustomer(r)
    \/ \E r \in Reqs : SaveCustomer(r)
    \/ \E r \in Reqs : StoreFailure(r)

Spec == Init /\ [][Next]_vars

\* One request at a time, each run to its answer, over a store that never fails.
NoneInFlight == \A r \in Reqs : ~InFlight(r)

SeqNext ==
    \/ Tick
    \/ \E body \in SubmitBodies : NoneInFlight /\ Create("r1", body)
    \/ FindFeedback("r1")
    \/ SaveFeedback("r1")
    \/ FindCustomer("r1")
    \/ SaveCustomer("r1")
    \/ \E id \in 1..nextId, by \in StaffNames : MarkContacted(id, by)

SpecSeq == Init /\ [][SeqNext]_vars

\* Staff follow-up: one session logs in and marks Feedback as contacted while
\* customers submit, one submission at a time, over a store that never fails.
InitAdmin ==
    /\ clock = 0
    /\ \E store \in {EmptyStore, EarlierStore, AgedStore} :
        /\ feedbacks = store.feedbacks
        /\ customers = store.customers
        /\ nextId = store.nextId
        /\ accepted = store.accepted
    /\ req = [r \in Reqs |-> IdleReq]
    /\ answer = NoAnswer
    /\ started = 0
    /\ marked = 0
    /\ AdminIdle

\* The requests received so far, of any kind, are fewer than MaxRequests.
MoreRequests == started + marked + calls < MaxRequests

AdminPassword == "shreerath_admin_2026"

ContactNext ==
    \/ Tick
    \/ \E body \in SubmitBodies : MoreRequests /\ NoneInFlight /\ Create("r1", body)
    \/ FindFeedback("r1")
    \/ SaveFeedback("r1")
    \/ FindCustomer("r1")
    \/ SaveCustomer("r1")
    \/ MoreRequests /\ Login("s1", "admin", AdminPassword)
    \/ \E id \in 0..nextId, body \in ContactBodies : MoreRequests /\ PatchContacted("s1", id, body)

SpecContact == InitAdmin /\ [][ContactNext]_vars

\* The dashboard's list: getFeedback is called while customers submit; time
\* passes between the submissions.
ListNext ==
    \/ NoneInFlight /\ Tick
    \/ \E body \in ValidSubmitBodies : MoreRequests /\ NoneInFlight /\ Create("r1", body)
    \/ FindFeedback("r1")
    \/ SaveFeedback("r1")
    \/ FindCustomer("r1")
    \/ SaveCustomer("r1")
    \/ \E filters \in ListQueries : MoreRequests /\ GetFeedback(filters)
    \/ ListFind
    \/ ListCount

SpecList == Init /\ [][ListNext]_vars

\* The dashboard's analytics: getAnalytics is called while customers submit
\* and staff mark Feedback as contacted, over a store that holds nothing, one
\* visit of a week ago, or the visits of two regular customers.
InitAnalytics ==
    /\ clock = 0
    /\ \E store \in {EmptyStore, AgedStore, RegularsStore} :
        /\ feedbacks = store.feedbacks
        /\ customers = store.customers
        /\ nextId = store.nextId
        /\ accepted = store.accepted
    /\ req = [r \in Reqs |-> IdleReq]
    /\ answer = NoAnswer
    /\ started = 0
    /\ marked = 0
    /\ AdminIdle

AnalyticsNext ==
    \/ NoneInFlight /\ Tick
    \/ \E body \in ValidSubmitBodies : MoreRequests /\ NoneInFlight /\ Create("r1", body)
    \/ FindFeedback("r1")
    \/ SaveFeedback("r1")
    \/ FindCustomer("r1")
    \/ SaveCustomer("r1")
    \/ \E i \in 1..Len(feedbacks) : MoreRequests /\ MarkContacted(feedbacks[i].id, "Ravi")
    \/ \E period \in Periods : MoreRequests /\ GetAnalytics(period)
    \/ AnalyticsStats
    \/ AnalyticsTrends

SpecAnalytics == InitAnalytics /\ [][AnalyticsNext]_vars

\* The auth and admin routes: two browser sessions log in and out with any of
\* the credentials and call the three admin routes, while customers submit.
AdminNext ==
    \/ \E body \in ValidSubmitBodies : MoreRequests /\ NoneInFlight /\ Create("r1", body)
    \/ FindFeedback("r1")
    \/ SaveFeedback("r1")
    \/ FindCustomer("r1")
    \/ SaveCustomer("r1")
    \/ \E s \in Sessions, username \in Usernames, password \in Passwords :
            MoreRequests /\ Login(s, username, password)
    \/ \E s \in Sessions : MoreRequests /\ Logout(s)
    \/ \E s \in Sessions, id \in 0..nextId, body \in ContactBodies :
            MoreRequests /\ PatchContacted(s, id, body)
    \/ \E s \in Sessions, filters \in ListQueries : MoreRequests /\ ListFeedback(s, filters)
    \/ ListFind
    \/ ListCount
    \/ \E s \in Sessions, period \in Periods : MoreRequests /\ Analytics(s, period)
    \/ AnalyticsStats
    \/ AnalyticsTrends

SpecAdmin == InitAnalytics /\ [][AdminNext]_vars

\* The validator alone: one request body out of ValidateBodies is parsed.
ValidateNext == started = 0 /\ \E body \in ValidateBodies : Create("r1", body)

SpecValidate == Init /\ [][ValidateNext]_vars

(***************************** the claims **********************************)
Phones == {PhoneA, PhoneB}

\* The stored Feedback and Customer of a phone number (null when none).
FeedbackOf(p) == FindOne(feedbacks, p, NoFeedback)

CustomerOf(p) == FindOne(customers, p, NoCustomer)

\* The calendar dates of the visits a Feedback holds.
DatesOf(fb) == {fb.visits[i].dateKey : i \in 1..Len(fb.visits)}

\* The submissions of a phone number answered 201, oldest first.
AcceptedOf(p) == SelectSeq(accepted, LAMBDA e : e.phoneNumber = p)

\* Request r receives the answer to its findOne for the Feedback in this step.
FeedbackFound(r) == req[r].pc = "findFeedback" /\ req'[r].pc # "findFeedback"

\* C1, first part: no Feedback holds two visits of one calendar date.
C1_OneVisitPerDate ==
    \A i \in 1..Len(feedbacks) :
        \A j, k \in 1..Len(feedbacks[i].visits) :
            j # k => feedbacks[i].visits[j].dateKey # feedbacks[i].visits[k].dateKey

\* C1, second part: a submit for a phone number on a date of which its
\* Feedback holds a visit ends at the duplicate check with error code 11000,
\* answered 409.
C1_DuplicateStep ==
    \A r \in Reqs :
        (/\ FeedbackFound(r)
         /\ DateKey(req[r].now) \in DatesOf(FeedbackOf(req[r].input.phoneNumber)))
        => /\ req'[r].pc = "idle"
           /\ answer'.status = 409
           /\ answer'.err.code = 11000
           /\ answer'.failedAt = "findFeedback"

\* C1: with one submit at a time, a second submit of a phone number on one
\* calendar date fails with DuplicateSubmission (code 11000, HTTP 409), and
\* so every Feedback holds at most one visit per dateKey.
C1_DuplicateSubmission == []C1_OneVisitPerDate /\ [][C1_DuplicateStep]_vars

\* A duplicate has just been refused, the Feedback holding its one visit of
\* the date.
C1_Witness ==
    /\ answer.status = 409
    /\ answer.failedAt = "findFeedback"
    /\ \E p \in Phones : Len(FeedbackOf(p).visits) >= 1

\* C2: the step in which a submit fails with DuplicateSubmission changes no
\* Feedback (visits, name, contactedAt, contactedBy) and no Customer
\* (totalVisits, lastVisitDate, visits), and the request ends there, before
\* the Customer step.
C2_DuplicateChangesNothing ==
    [][\A r \in Reqs :
        (FeedbackFound(r) /\ answer'.status = 409 /\ req'[r].pc = "idle")
        => /\ feedbacks' = feedbacks
           /\ customers' = customers
           /\ req'[r] = IdleReq]_vars

\* A duplicate has been refused for a customer who has been contacted.
C2_Witness ==
    /\ answer.status = 409
    /\ answer.failedAt = "findFeedback"
    /\ \E p \in Phones :
        /\ FeedbackOf(p).contactedAt # Unset
        /\ CustomerOf(p).totalVisits >= 1

\* C3: with one submit at a time, a phone number with n successful submits
\* has totalVisits = n, lastVisitDate the time of the last of them and
\* firstVisitDate the time of the first; once the last has been answered its
\* Feedback holds n visits.
C3_CountersFollowSubmits ==
    \A p \in Phones :
        LET acc == AcceptedOf(p) IN
        Len(acc) >= 1 =>
            /\ CustomerOf(p).totalVisits = Len(acc)
            /\ CustomerOf(p).lastVisitDate = acc[Len(acc)].now
            /\ CustomerOf(p).firstVisitDate = acc[1].now
            /\ NoneInFlight => Len(FeedbackOf(p).visits) = Len(acc)

\* Two submits of one phone number on two dates have been answered 201.
C3_Witness ==
    /\ NoneInFlight
    /\ \E p \in Phones :
        LET acc == AcceptedOf(p) IN
        /\ Len(acc) = 2
        /\ DateKey(acc[1].now) # DateKey(acc[2].now)
        /\ CustomerOf(p).totalVisits = 2

\* Request r receives the answer to its feedback.save() in this step.
FeedbackSaveAnswered(r) == req[r].pc = "saveFeedback" /\ req'[r].pc # "saveFeedback"

\* C4, first part: no two Feedback records have one phone number.
C4_OneFeedbackPerPhone ==
    \A i, j \in 1..Len(feedbacks) :
        i # j => feedbacks[i].phoneNumber # feedbacks[j].phoneNumber

\* C4, second part: the creation of a Feedback for a phone number that has
\* one by now creates nothing and ends the request with error code 11000
\* (or with the failure of the store itself).
C4_SecondCreationStep ==
    \A r \in Reqs :
        (/\ FeedbackSaveAnswered(r)
         /\ req[r].isNew
         /\ FeedbackOf(req[r].input.phoneNumber).id # 0)
        => /\ feedbacks' = feedbacks
           /\ req'[r].pc = "idle"
           /\ answer'.failedAt = "saveFeedback"
           /\ answer'.err.code = 11000 \/ answer'.err = StoreError

\* C4: there is at most one Feedback per phone number, also when two submits
\* of a new phone number overlap and both try to create it: one creation
\* succeeds and the other fails with the duplicate-key error 11000.
C4_UniqueFeedback == []C4_OneFeedbackPerPhone /\ [][C4_SecondCreationStep]_vars

\* Two overlapping submits have both tried to create the Feedback of a phone
\* number; one has, the other has been answered 409.
C4_Witness ==
    /\ answer.failedAt = "saveFeedback"
    /\ answer.status = 409
    /\ \E p \in Phones : Cardinality(Matching(feedbacks, p)) = 1

\* C5: there is at most one Customer per phone number, however the submits
\* interleave.
C5_OneCustomerPerPhone ==
    \A i, j \in 1..Len(customers) :
        i # j => customers[i].phoneNumber # customers[j].phoneNumber

\* Two overlapping submits have both tried to create the Customer of a phone
\* number, and the second has been refused.
C5_Witness ==
    /\ answer.failedAt = "saveCustomer"
    /\ answer.status = 409
    /\ Len(customers) >= 1

\* C6 as claimed: the Customer's name is the name of the latest successful
\* submit of its phone number.
C6_LastWriteWins ==
    \A p \in Phones :
        LET acc == AcceptedOf(p) IN
        Len(acc) >= 1 => CustomerOf(p).name = acc[Len(acc)].name

\* C6 as amended: the Customer's name is the name of the first successful
\* submit of its phone number, the one that created the record; a later
\* submit under another name leaves it.
C6_FirstWriteWins ==
    \A p \in Phones :
        LET acc == AcceptedOf(p) IN
        Len(acc) >= 1 => CustomerOf(p).name = acc[1].name

\* A phone number has two successful submits under two names.
C6_Witness ==
    \E p \in Phones :
        LET acc == AcceptedOf(p) IN
        /\ Len(acc) = 2
        /\ acc[1].name # acc[2].name
        /\ CustomerOf(p).id # 0

\* C7: with one submit at a time and none in flight, a phone number has no
\* record before its first successful submit; after it, one Feedback holding
\* that one visit and one Customer with totalVisits = 1, firstVisitDate =
\* lastVisitDate = the time of the submit and visits = [the Feedback's id];
\* each later successful submit leaves it with the same two records and one
\* more visit, appended to the Feedback.
C7_CreatedTogether ==
    NoneInFlight =>
    \A p \in Phones :
        LET acc == AcceptedOf(p)
            fb == FeedbackOf(p)
            cc == CustomerOf(p)
        IN  /\ Cardinality(Matching(feedbacks, p)) = (IF Len(acc) = 0 THEN 0 ELSE 1)
            /\ Cardinality(Matching(customers, p)) = (IF Len(acc) = 0 THEN 0 ELSE 1)
            /\ Len(fb.visits) = Len(acc)
            /\ \A i \in 1..Len(acc) :
                    /\ fb.visits[i].createdAt = acc[i].now
                    /\ fb.visits[i].dateKey = DateKey(acc[i].now)
            /\ Len(acc) >= 1 => cc.visits = <<fb.id>>
            /\ Len(acc) = 1 =>
                    /\ cc.totalVisits = 1
                    /\ cc.firstVisitDate = acc[1].now
                    /\ cc.lastVisitDate = acc[1].now

\* One phone number has had its first successful submit, the other its
\* second.
C7_Witness ==
    /\ NoneInFlight
    /\ \E p, q \in Phones : Len(AcceptedOf(p)) = 1 /\ Len(AcceptedOf(q)) = 2
    /\ feedbacks # EarlierStore.feedbacks

\* C8: the arrival of a create-feedback request either starts createFeedback
\* with a body that passes validation, or is answered 400 for a body that
\* fails it; in that case no request is started and no Feedback or Customer
\* is created or changed.
C8_ValidationFirst ==
    [][started' # started =>
        \/ /\ answer'.status = 400
           /\ ~ParseOk(answer'.input)
           /\ req' = req
           /\ feedbacks' = feedbacks
           /\ customers' = customers
        \/ /\ answer' = answer
           /\ \E r \in Reqs :
                /\ ~InFlight(r)
                /\ req'[r].pc = "findFeedback"
                /\ ParseOk(req'[r].input)
                /\ \A q \in Reqs \ {r} : req'[q] = req[q]]_vars

\* A body that fails validation has been answered 400 with records stored.
C8_Witness ==
    /\ answer.status = 400
    /\ answer.input = InvalidBody
    /\ feedbacks # <<>>
    /\ customers # <<>>

\* The body the validator model has parsed, and what became of it.
ParsedBody == IF InFlight("r1") THEN req["r1"].input ELSE answer.input

Rejected == ~InFlight("r1") /\ answer.status = 400 /\ answer.err = ZodError

Admitted == req["r1"].pc = "findFeedback"

WholeStars == {k * Unit : k \in 1..5}

\* Every field of a body but the rating c is valid.
RestValid(body, c) ==
    /\ body.name = "A"
    /\ body.phoneNumber = PhoneA
    /\ body.location = "Shree Rath"
    /\ body.dineType \in {"dine_in", "take_out"}
    /\ body.noteLen <= 500
    /\ \A d \in CategorySet \ {c} : body.ratings[d] \in WholeStars

\* C9: for each of the six ratings, a body with that rating below 1 or above
\* 5 (0 or 6) is rejected with a validation error, and a body with that
\* rating 1 or 5 and every other field valid is accepted.
C9_RatingRange ==
    started = 1 =>
    \A c \in CategorySet :
        /\ (ParsedBody.ratings[c] < 1 * Unit \/ ParsedBody.ratings[c] > 5 * Unit) => Rejected
        /\ (ParsedBody.ratings[c] \in {1 * Unit, 5 * Unit} /\ RestValid(ParsedBody, c)) => Admitted

\* A body valid but for six stars of service speed has been rejected.
C9_Witness ==
    /\ started = 1
    /\ Rejected
    /\ ParsedBody.ratings["serviceSpeed"] = 6 * Unit
    /\ RestValid(ParsedBody, "serviceSpeed")

\* C10 as claimed: the six ratings of every stored visit are whole numbers
\* of stars from 1 to 5.
C10_StoredRatingsWhole ==
    \A i \in 1..Len(feedbacks) :
        \A j \in 1..Len(feedbacks[i].visits) :
            \A c \in CategorySet : feedbacks[i].visits[j].ratings[c] \in WholeStars

\* The order of the fields as C11 gives it.
ReportOrder ==
    <<"name", "phoneNumber", "location", "dineType",
      "ratings.foodQuality", "ratings.foodTaste", "ratings.staffBehavior",
      "ratings.hygiene", "ratings.ambience", "ratings.serviceSpeed", "note">>

\* C11: the 400 answer to a body that breaks one or more field rules names
\* the first of the failing fields in the order name, phoneNumber, location,
\* dineType, the six ratings (foodQuality, foodTaste, staffBehavior, hygiene,
\* ambience, serviceSpeed), note.
C11_FirstFailingField ==
    Rejected =>
        \E i \in 1..Len(ReportOrder) :
            /\ answer.field = ReportOrder[i]
            /\ ~FieldOk(answer.input, ReportOrder[i])
            /\ \A j \in 1..(i - 1) : FieldOk(answer.input, ReportOrder[j])

\* A body with a nine-digit phone number, no stars for hygiene, six for
\* service speed and too long a note has been answered 400 for phoneNumber.
C11_Witness ==
    /\ Rejected
    /\ answer.input.name = "A"
    /\ answer.input.phoneNumber = PhoneShort
    /\ answer.input.ratings["hygiene"] = 0
    /\ answer.input.ratings["serviceSpeed"] = 6 * Unit
    /\ answer.input.noteLen > NoteMax
    /\ answer.field = "phoneNumber"

\* An auth or admin request is received in this step and answered by route.
Answered(route) == calls' # calls /\ reply'.route = route

\* C12 as claimed: a markContacted call (authenticated, with a staff name)
\* whose id matches no Feedback is answered 404 and changes no Feedback and
\* no Customer.
C12_UnknownIdNotFound ==
    [][(/\ Answered("markContacted")
        /\ reply'.status \notin {400, 401}
        /\ FindById(feedbacks, reply'.args.id, NoFeedback).id = 0)
       => /\ reply'.status = 404
          /\ feedbacks' = feedbacks
          /\ customers' = customers]_vars

\* C13, first part: every Feedback holds the contactedBy and contactedAt of
\* the last markContacted call that found it, and none if there was no call.
C13_LastCallWins ==
    \A i \in 1..Len(feedbacks) :
        LET mine == {c \in contacts : c.id = feedbacks[i].id} IN
        /\ mine = {} => feedbacks[i].contactedAt = Unset /\ feedbacks[i].contactedBy = ""
        /\ \A c \in mine :
            feedbacks[i].contactedBy = c.contactedBy /\ feedbacks[i].contactedAt = c.at

\* C13, second part: a markContacted call answered 200 sets contactedBy to
\* the given name and contactedAt to the time of the call in the Feedback
\* with the id, and changes nothing else in it, no other Feedback and no
\* Customer.
C13_MarkStep ==
    (Answered("markContacted") /\ reply'.status = 200) =>
        /\ \E i \in 1..Len(feedbacks) :
            /\ feedbacks[i].id = reply'.args.id
            /\ feedbacks' = [feedbacks EXCEPT ![i].contactedBy = reply'.args.contactedBy,
                                              ![i].contactedAt = clock]
        /\ customers' = customers

\* C13: markContacted on an existing Feedback sets contactedBy and
\* contactedAt and nothing else; a later call overwrites both, so the fields
\* hold the values of the last call.
C13_MarkContacted == []C13_LastCallWins /\ [][C13_MarkStep]_vars

\* A Feedback with a visit has been marked by one name, then at a later time
\* by another.
C13_Witness ==
    \E i \in 1..Len(feedbacks), c \in contacts :
        /\ c.id = feedbacks[i].id
        /\ Len(feedbacks[i].visits) >= 1
        /\ c.before.contactedBy \notin {"", c.contactedBy}
        /\ c.before.contactedAt # Unset
        /\ c.before.contactedAt < c.at
        /\ feedbacks[i].contactedBy = c.contactedBy


\* A list-feedback request is answered 200 in this step.
ListAnswered == list.pc = "reading" /\ list'.pc = "idle" /\ reply'.status = 200

\* The documents of a list answer that hold the visit of an accepted
\* submission: its phone number, and a visit created at its time.
Holding(data, submission) ==
    {k \in 1..Len(data) :
        /\ data[k].phoneNumber = submission.phoneNumber
        /\ \E j \in 1..Len(data[k].visits) :
            /\ data[k].visits[j].createdAt = submission.now
            /\ data[k].visits[j].dateKey = DateKey(submission.now)}

\* C14: a list call without filters (page 1) that follows a successful
\* submit returns exactly one Feedback whose visits contain the visit just
\* submitted, whatever other Feedback exist; no other returned Feedback has
\* the phone number of the submission.
C14_ListAfterSubmit ==
    [][(ListAnswered /\ list.filters = NoFilters /\ list.after > 0)
       => LET last == accepted[list.after]
              data == reply'.body.data
          IN  /\ Cardinality(Holding(data, last)) = 1
              /\ Cardinality({k \in 1..Len(data) : data[k].phoneNumber = last.phoneNumber}) = 1]_vars

\* A submission has been answered 201 in this run, and the list call that
\* followed it, without filters, has returned two Feedback, one of them with
\* two visits, the later of which is the visit just submitted.
C14_Witness ==
    /\ answer.status = 201
    /\ reply.route = "list" /\ reply.status = 200 /\ reply.args = NoFilters
    /\ Len(reply.body.data) = 2
    /\ \E k \in Holding(reply.body.data, accepted[Len(accepted)]) :
        /\ Len(reply.body.data[k].visits) = 2
        /\ reply.body.data[k].visits[2].createdAt = accepted[Len(accepted)].now


\* The visits of a document on a date.
VisitsOn(doc, d) == SelectSeq(doc.visits, LAMBDA v : v.dateKey = d)

\* No submission has been received or answered since the list request that
\* is being answered was received: the store is as the request found it.
Undisturbed == NoneInFlight /\ Len(accepted) = list.after

\* C17, the step: a list answer for the date d holds only stored Feedback
\* with a visit on d, none twice, each with visits on d alone, in stored
\* order; they are all the stored visits on d when no submission overlapped
\* the request, and then the total counts the Feedback with a visit on d and
\* a page that holds them all holds exactly these.  The step leaves the
\* stored documents as they are.
C17_DateStep ==
    (ListAnswered /\ list.filters.date # <<>>) =>
        LET d == list.filters.date[1]
            data == reply'.body.data
            hits == {i \in 1..Len(feedbacks) : Len(VisitsOn(feedbacks[i], d)) >= 1}
        IN  /\ \A k \in 1..Len(data) :
                /\ Len(data[k].visits) >= 1
                /\ \A j \in 1..Len(data[k].visits) : data[k].visits[j].dateKey = d
                /\ \E i \in hits :
                    /\ data[k].id = feedbacks[i].id
                    /\ Len(data[k].visits) <= Len(VisitsOn(feedbacks[i], d))
                    /\ data[k].visits =
                         SubSeq(VisitsOn(feedbacks[i], d), 1, Len(data[k].visits))
                    /\ Undisturbed => data[k].visits = VisitsOn(feedbacks[i], d)
            /\ \A k, m \in 1..Len(data) : k # m => data[k].id # data[m].id
            /\ Undisturbed =>
                /\ reply'.body.pagination.total = Cardinality(hits)
                /\ (list.filters.page = 1 /\ list.filters.limit >= Cardinality(hits)) =>
                        {data[k].id : k \in 1..Len(data)} = {feedbacks[i].id : i \in hits}
            /\ feedbacks' = feedbacks
            /\ customers' = customers

\* C17: list with a date filter d returns exactly the Feedback that have a
\* visit with dateKey = d, each with only its visits of that date, and the
\* stored documents keep all their visits.
C17_DateFilter == [][C17_DateStep]_vars

\* Two Feedback are stored, one with visits on two dates and one with a
\* visit on the later date alone; the list for the earlier date has returned
\* the first with its one visit of that date, and the store still holds both
\* visits.
C17_Witness ==
    /\ reply.route = "list" /\ reply.status = 200 /\ reply.args.date # <<>>
    /\ Len(feedbacks) = 2
    /\ Len(reply.body.data) = 1
    /\ Len(reply.body.data[1].visits) = 1
    /\ reply.body.data[1].visits[1].dateKey = reply.args.date[1]
    /\ \E i, j \in 1..Len(feedbacks) :
        /\ feedbacks[i].id = reply.body.data[1].id
        /\ Len(feedbacks[i].visits) = 2
        /\ feedbacks[i].visits[2].dateKey # reply.args.date[1]
        /\ Len(VisitsOn(feedbacks[j], reply.args.date[1])) = 0


\* The ordered filtered result of the list request that is being answered:
\* what find has returned, mapped, and with a date filter cut down to the
\* visits of the date.
FilteredResults ==
    LET Mapped(raw) == [k \in 1..Len(raw) |-> MapDocument(raw[k])]
        raws == IF list.found THEN {list.data} ELSE Found(feedbacks, list.filters)
    IN  {IF list.filters.date # <<>>
         THEN DateFiltered(Mapped(raw), list.filters.date[1])
         ELSE Mapped(raw) : raw \in raws}

\* What countDocuments has returned to that request.
DocumentCount == IF list.counted THEN list.total ELSE Counted(feedbacks, list.filters)

\* C18, the step: the answer holds at most limit documents, those at the
\* positions (page-1)*limit .. page*limit-1 (counted from 0) of the ordered
\* filtered result; without a date filter that result has the most recent
\* visit first.  The total is the length of the filtered result with a date
\* filter and the count of the documents matching the search without one,
\* and pages is the total divided by the limit, rounded up.
C18_PageStep ==
    ListAnswered =>
        LET page == list.filters.page
            limit == list.filters.limit
            data == reply'.body.data
            total == reply'.body.pagination.total
        IN  /\ Len(data) <= limit
            /\ \E full \in FilteredResults :
                /\ \A k \in 1..Len(data) :
                    /\ (page - 1) * limit + k <= Len(full)
                    /\ data[k] = full[(page - 1) * limit + k]
                /\ \/ Len(data) = limit
                   \/ (page - 1) * limit + Len(data) >= Len(full)
                /\ list.filters.date = <<>> =>
                    \A k, m \in 1..Len(full) : k < m => Newest(full[k]) >= Newest(full[m])
                /\ total = IF list.filters.date # <<>> THEN Len(full) ELSE DocumentCount
            /\ Undisturbed =>
                total = Cardinality({i \in 1..Len(feedbacks) : Matches(feedbacks[i], list.filters)})
            /\ reply'.body.pagination.pages * limit >= total
            /\ (reply'.body.pagination.pages - 1) * limit < total \/ total = 0

\* C18: list returns at most limit documents, the positions (page-1)*limit
\* .. page*limit-1 of the ordered filtered result, and a total that is the
\* size of the whole filtered result, not of the page.
C18_Pagination == [][C18_PageStep]_vars

\* Page 2 with limit 1 has returned one Feedback, the one with the older
\* visits, out of a total of two.
C18_Witness ==
    /\ reply.route = "list" /\ reply.status = 200
    /\ reply.args.page = 2 /\ reply.args.limit = 1
    /\ Len(reply.body.data) = 1
    /\ reply.body.pagination.total = 2
    /\ reply.body.pagination.pages = 2
    /\ \E i \in 1..Len(feedbacks) :
        /\ feedbacks[i].id # reply.body.data[1].id
        /\ Newest(feedbacks[i]) > Newest(reply.body.data[1])


\* The first aggregate of an analytics request is answered in this step.
StatsAnswered == analytics.pc = "stats" /\ analytics'.pc = "trends"

\* An analytics request is answered 200 in this step.
AnalyticsAnswered == analytics.pc = "trends" /\ analytics'.pc = "idle" /\ reply'.status = 200

\* The visits inside the window that starts at startDate, of the documents
\* at the positions in which: pairs of a document and one of its visits.
WindowVisits(which, startDate) ==
    UNION {{<<i, j>> : j \in {v \in 1..Len(feedbacks[i].visits) :
                                  feedbacks[i].visits[v].createdAt >= startDate}} : i \in which}

\* The positions of the Feedback that have contactedAt set.
ContactedFeedback == {i \in 1..Len(feedbacks) : feedbacks[i].contactedAt # Unset}

\* The counts of an analytics answer are those of its first aggregate.
CountsReported ==
    AnalyticsAnswered =>
        /\ reply'.body.totalFeedback = analytics.stats.total
        /\ reply'.body.feedbackVolume[1].name = "Contacted"
        /\ reply'.body.feedbackVolume[1].value = analytics.stats.contacted

\* C19 as claimed: contacted is the number of Feedback documents with
\* contactedAt set (and a visit in the window), so that a contacted Feedback
\* with several visits in the window counts once.
C19_ContactedCountsDocuments ==
    [][StatsAnswered =>
        analytics'.stats.contacted =
            Cardinality({i \in ContactedFeedback :
                            WindowVisits({i}, analytics.startDate) # {}})]_vars

\* C19, amended: contacted is the number of visits inside the window whose
\* parent Feedback has contactedAt set: a contacted Feedback with k visits in
\* the window contributes k to contacted, as it does to totalFeedback, which
\* counts all the visits in the window.
C19_ContactedCountsVisits ==
    [][/\ StatsAnswered =>
            /\ analytics'.stats.total =
                 Cardinality(WindowVisits(1..Len(feedbacks), analytics.startDate))
            /\ analytics'.stats.contacted =
                 Cardinality(WindowVisits(ContactedFeedback, analytics.startDate))
       /\ CountsReported]_vars

\* Analytics has answered with three visits in the window, two of them
\* counted as contacted, while one Feedback is marked as contacted, the one
\* with two visits in the window.
C19_Witness ==
    /\ reply.route = "analytics" /\ reply.status = 200
    /\ reply.body.totalFeedback = 3
    /\ reply.body.feedbackVolume[1].value = 2
    /\ Cardinality(ContactedFeedback) = 1
    /\ Cardinality(WindowVisits(ContactedFeedback, StartDate(reply.args.period, clock))) = 2


\* C20, the step: the responseRate of an analytics answer is 0 when the
\* window holds no visit; otherwise it is the integer nearest to
\* contacted / totalFeedback * 100, a half rounded up.  It is an integer
\* from 0 to 100.
C20_RateStep ==
    AnalyticsAnswered =>
        LET total == reply'.body.totalFeedback
            contacted == reply'.body.feedbackVolume[1].value
            rate == reply'.body.responseRate
        IN  /\ rate \in 0..100
            /\ total = 0 => rate = 0
            /\ total > 0 =>
                /\ 2 * rate * total <= 200 * contacted + total
                /\ 200 * contacted + total < 2 * (rate + 1) * total

\* C20: analytics returns responseRate = round(contacted / totalFeedback *
\* 100) when totalFeedback > 0 and 0 when the window holds no visit, always
\* an integer in 0..100.
C20_ResponseRate == [][C20_RateStep]_vars

\* Analytics has answered 67 for two contacted visits out of three: 66.67
\* rounded up.
C20_Witness ==
    /\ reply.route = "analytics" /\ reply.status = 200
    /\ reply.body.totalFeedback = 3
    /\ reply.body.feedbackVolume[1].value = 2
    /\ reply.body.responseRate = 67
    /\ reply.body.responseRate * reply.body.totalFeedback > 100 * reply.body.feedbackVolume[1].value


AdminRoutes == {"list", "markContacted", "analytics"}

\* C15, requests without a session: an admin request is answered 401 exactly
\* when its session is not authenticated, and then the store is not called:
\* no query is started and no document changes.  A query of list or
\* analytics is started only for an authenticated session.
C15_Unauthenticated ==
    /\ (calls' # calls /\ reply'.route \in AdminRoutes) =>
        /\ reply'.status = 401 <=> ~authed[reply'.session]
        /\ reply'.status = 401 =>
            /\ feedbacks' = feedbacks
            /\ customers' = customers
            /\ contacts' = contacts
            /\ list' = list
            /\ analytics' = analytics
    /\ (list.pc = "idle" /\ list'.pc # "idle") => authed[list'.session]
    /\ (analytics.pc = "idle" /\ analytics'.pc # "idle") => authed[analytics'.session]

\* C15, sessions: a session becomes authenticated only by its own login with
\* the admin pair, answered 200, and is not authenticated after its logout.
C15_Sessions ==
    \A s \in Sessions :
        /\ (authed'[s] /\ ~authed[s]) =>
            /\ Answered("login")
            /\ reply'.session = s
            /\ reply'.status = 200
            /\ reply'.args = [username |-> "admin", password |-> AdminPassword]
        /\ (Answered("logout") /\ reply'.session = s) => ~authed'[s]
        /\ (Answered("login") /\ reply'.session = s /\ reply'.status # 200) =>
            authed'[s] = authed[s]

\* C15, submissions: create-feedback is never refused for want of a session,
\* and a submission does not touch the sessions.
C15_SubmitOpen ==
    /\ answer'.status # 401
    /\ req' # req => authed' = authed

\* C15: an admin request of a session that is not authenticated is answered
\* 401 and never reaches the store; a session is authenticated only between
\* its login with the admin credential pair and its next logout;
\* create-feedback is accepted without authentication.
C15_AuthRequired ==
    [][C15_Unauthenticated /\ C15_Sessions /\ C15_SubmitOpen]_vars

\* While session s1 is authenticated, session s2, which is not, has asked to
\* mark an existing Feedback as contacted and has been answered 401; the
\* Feedback is not marked.
C15_Witness ==
    /\ authed["s1"] /\ ~authed["s2"]
    /\ reply.route = "markContacted" /\ reply.session = "s2" /\ reply.status = 401
    /\ reply.args.contactedBy \in StaffNames
    /\ \E i \in 1..Len(feedbacks) :
        /\ feedbacks[i].id = reply.args.id
        /\ feedbacks[i].contactedAt = Unset


\* A step of a list or analytics request: it is received, or one of its
\* queries is answered.
ReadStep ==
    \/ list' # list
    \/ analytics' # analytics
    \/ Answered("list")
    \/ Answered("analytics")

\* A step that saves a document of a submission.
SubmitSaves ==
    \E r \in Reqs : req'[r] # req[r] /\ req[r].pc \in {"saveFeedback", "saveCustomer"}

\* C16, the step: a step of list or analytics leaves every Feedback and
\* every Customer as it is, and so do login and logout; a step that changes
\* one of them is a save of a submission or a markContacted answered 200.
C16_ReadStep ==
    /\ ReadStep => feedbacks' = feedbacks /\ customers' = customers
    /\ (Answered("login") \/ Answered("logout")) =>
            feedbacks' = feedbacks /\ customers' = customers
    /\ (feedbacks' # feedbacks \/ customers' # customers) =>
        \/ SubmitSaves
        \/ Answered("markContacted") /\ reply'.status = 200

\* C16: list and analytics are pure reads: the Feedback and Customer records
\* and all their fields are the same before and after the call; markContacted
\* and submit are the only operations that change stored state.
C16_PureReads == [][C16_ReadStep]_vars

\* After a markContacted has changed a Feedback, a list for a date has
\* returned a Feedback with its one visit of that date, and the stored
\* Feedback still has its visits of other dates.
C16_Witness ==
    /\ contacts # {}
    /\ reply.route = "list" /\ reply.status = 200 /\ reply.args.date # <<>>
    /\ \E k \in 1..Len(reply.body.data), i \in 1..Len(feedbacks) :
        /\ feedbacks[i].id = reply.body.data[k].id
        /\ Len(reply.body.data[k].visits) = 1
        /\ Len(feedbacks[i].visits) = 2


\* The labels of the categories as analytics names them, in declared order.
CategoryLabels ==
    <<"food quality", "food taste", "staff behavior", "hygiene", "ambience", "service speed">>

\* The sum of the ratings of a category over the visits inside the window
\* that starts at startDate, in units; the mean is this sum over the number
\* of those visits.
WindowSum(c, startDate) ==
    Cardinality(UNION {{<<row, k>> : k \in 1..feedbacks[row[1]].visits[row[2]].ratings[c]} :
                            row \in WindowVisits(1..Len(feedbacks), startDate)})

\* C21, the step: the first aggregate sums each category over the visits in
\* the window, and the answer names the category with the highest mean, the
\* earliest of the declared order when several share it; for an empty window
\* that is food quality.
C21_TopStep ==
    /\ StatsAnswered =>
        \A c \in CategorySet : analytics'.stats.sums[c] = WindowSum(c, analytics.startDate)
    /\ AnalyticsAnswered =>
        LET sums == analytics.stats.sums IN
        /\ \E i \in 1..Len(Categories) :
            /\ reply'.body.topCategory = CategoryLabels[i]
            /\ \A j \in 1..Len(Categories) : sums[Categories[j]] <= sums[Categories[i]]
            /\ \A j \in 1..(i - 1) : sums[Categories[j]] < sums[Categories[i]]
        /\ analytics.stats.total = 0 => reply'.body.topCategory = CategoryLabels[1]

\* C21: analytics returns as topCategory the category with the highest mean
\* in the window, and among several with the highest mean (all of them when
\* the window is empty) the earliest in the order foodQuality, foodTaste,
\* staffBehavior, hygiene, ambience, serviceSpeed.
C21_TopCategory == [][C21_TopStep]_vars

\* Analytics has answered staff behavior for a window whose visits rate food
\* quality lower than staff behavior, hygiene and service speed, which tie.
C21_Witness ==
    /\ reply.route = "analytics" /\ reply.status = 200
    /\ reply.body.totalFeedback >= 1
    /\ reply.body.topCategory = "staff behavior"
    /\ LET start == StartDate(reply.args.period, clock) IN
        /\ Cardinality(WindowVisits(1..Len(feedbacks), start)) = reply.body.totalFeedback
        /\ WindowSum("foodQuality", start) < WindowSum("staffBehavior", start)
        /\ WindowSum("staffBehavior", start) = WindowSum("hygiene", start)
        /\ WindowSum("staffBehavior", start) = WindowSum("serviceSpeed", start)


\* An analytics request is received and let through in this step.
AnalyticsStarted == analytics.pc = "idle" /\ analytics'.pc # "idle"

\* C22, the step: the window of a request starts 7 days before the time of
\* the request for week and 30 days before it for month; the weeklyTrends of
\* the answer hold the calendar dates of the visits created at or after that
\* start, each date once, in strictly ascending order, and no other date.
C22_TrendStep ==
    /\ AnalyticsStarted =>
        analytics'.startDate =
            clock - (IF analytics'.period = "week" THEN WeekDays ELSE MonthDays) * TicksPerDay
    /\ AnalyticsAnswered =>
        LET trends == reply'.body.weeklyTrends
            dates == {DateKey(feedbacks[row[1]].visits[row[2]].createdAt) :
                        row \in WindowVisits(1..Len(feedbacks), analytics.startDate)}
        IN  /\ {trends[k].date : k \in 1..Len(trends)} = dates
            /\ Len(trends) = Cardinality(dates)
            /\ \A k \in 1..(Len(trends) - 1) : trends[k].date < trends[k + 1].date

\* C22: weeklyTrends has exactly one entry per distinct calendar date on
\* which a visit inside the window (createdAt >= now - 7 days for week, now -
\* 30 days for month) was created, in strictly ascending order of the date,
\* and no entry for a date without such a visit.
C22_WeeklyTrends == [][C22_TrendStep]_vars

\* Analytics for the week has answered with two dates, the earlier first,
\* while the store holds a visit of a date before the window, which has no
\* entry.
C22_Witness ==
    /\ reply.route = "analytics" /\ reply.status = 200 /\ reply.args.period = "week"
    /\ Len(reply.body.weeklyTrends) = 2
    /\ reply.body.weeklyTrends[1].date < reply.body.weeklyTrends[2].date
    /\ \E i \in 1..Len(feedbacks) : \E j \in 1..Len(feedbacks[i].visits) :
        /\ feedbacks[i].visits[j].createdAt < StartDate("week", clock)
        /\ feedbacks[i].visits[j].dateKey < reply.body.weeklyTrends[1].date


\* Request r has passed the duplicate check on an existing Feedback and its
\* save is answered in this step, without an error.
ExistingSaved(r) ==
    /\ req[r].pc = "saveFeedback"
    /\ ~req[r].isNew
    /\ req'[r].pc = "findCustomer"

\* C23, the steps: the duplicate check of a submit looks at the stored
\* Feedback alone: when that holds no visit of the date the submit goes on to
\* its save (unless the store fails), whatever another submit has read and
\* is about to write; and the save of a submit that
\* has passed the check appends its visit to the stored Feedback, also when
\* a visit of the same date has been stored in between.
C23_RaceStep ==
    \A r \in Reqs :
        /\ (/\ FeedbackFound(r)
            /\ FeedbackOf(req[r].input.phoneNumber).id # 0
            /\ DateKey(req[r].now) \notin DatesOf(FeedbackOf(req[r].input.phoneNumber)))
           => \/ req'[r].pc = "saveFeedback" /\ answer' = answer
              \/ answer'.err = StoreError /\ answer'.status = 500
        /\ ExistingSaved(r) =>
            \E i \in 1..Len(feedbacks) :
                /\ feedbacks[i].id = req[r].feedback.id
                /\ feedbacks' = [feedbacks EXCEPT
                        ![i].visits = Append(@, NewVisit(req[r].input, req[r].now))]

\* C23: two overlapping submits of one phone number on one calendar date,
\* for a Feedback that exists and has no visit of that date, can both pass
\* the duplicate check before either saves, and both append their visit;
\* neither is answered DuplicateSubmission.
C23_OverlappingSubmits == [][C23_RaceStep]_vars

\* A Feedback that held one visit of an earlier date now holds two more, of
\* one date, and both submits of that date have been answered 201.
C23_Witness ==
    /\ NoneInFlight
    /\ \E p \in Phones :
        /\ Len(FeedbackOf(p).visits) = 3
        /\ FeedbackOf(p).visits[2].dateKey = FeedbackOf(p).visits[3].dateKey
        /\ FeedbackOf(p).visits[1].dateKey # FeedbackOf(p).visits[2].dateKey
        /\ Len(AcceptedOf(p)) = 3
        /\ DateKey(AcceptedOf(p)[2].now) = DateKey(AcceptedOf(p)[3].now)


\* Request r is between its Feedback write and its Customer write.
BetweenWrites(r) == req[r].pc \in {"findCustomer", "saveCustomer"}

\* The stored Feedback of the phone number of request r holds the visit of r.
VisitStored(r) ==
    \E j \in 1..Len(FeedbackOf(req[r].input.phoneNumber).visits) :
        FeedbackOf(req[r].input.phoneNumber).visits[j] = NewVisit(req[r].input, req[r].now)

\* C24, first part: a submit that is between its two writes has its visit in
\* the stored Feedback.
C24_FeedbackWritten == \A r \in Reqs : BetweenWrites(r) => VisitStored(r)

\* C24, second part: when a submit ends between its two writes, with any
\* answer but 201, the step changes neither collection: the Feedback keeps
\* the visit and the Customer is not created or updated.
C24_StopStep ==
    \A r \in Reqs :
        (BetweenWrites(r) /\ req'[r].pc = "idle" /\ answer'.status # 201)
        => /\ feedbacks' = feedbacks
           /\ customers' = customers
           /\ accepted' = accepted

\* C24: a submit that stops after the Feedback write and before the Customer
\* write leaves the Feedback with the new visit and the Customer stale
\* (absent, or with totalVisits and lastVisitDate as before); the Feedback
\* write is not rolled back.
C24_StaleCustomer == []C24_FeedbackWritten /\ [][C24_StopStep]_vars

\* Two submits have failed at the Customer step: one Feedback holds two
\* visits while its Customer still counts one and has the time of the first
\* as lastVisitDate; another Feedback holds a visit and has no Customer.
C24_Witness ==
    /\ NoneInFlight
    /\ answer.status = 500
    /\ answer.failedAt \in {"findCustomer", "saveCustomer"}
    /\ \E p, q \in Phones :
        /\ Len(FeedbackOf(p).visits) = 2
        /\ CustomerOf(p).totalVisits = 1
        /\ CustomerOf(p).lastVisitDate = FeedbackOf(p).visits[1].createdAt
        /\ CustomerOf(p).lastVisitDate < FeedbackOf(p).visits[2].createdAt
        /\ Len(FeedbackOf(q).visits) = 1
        /\ CustomerOf(q).id = 0


\* C25 as claimed: in every Feedback the visits are in chronological order,
\* visits[i].createdAt <= visits[j].createdAt for i < j, for any
\* interleaving of submits.
C25_Chronological ==
    \A i \in 1..Len(feedbacks) :
        \A j, k \in 1..Len(feedbacks[i].visits) :
            j < k => feedbacks[i].visits[j].createdAt <= feedbacks[i].visits[k].createdAt


\* C26: the Customer never gets ahead of the Feedback: a Customer of a phone
\* number exists only if a Feedback of that phone number exists, and its
\* totalVisits is at most the number of visits of that Feedback, in every
\* state, also after a submit has stopped between its two writes and under
\* overlapping submits.
C26_CustomerNotAhead ==
    \A k \in 1..Len(customers) :
        LET fb == FeedbackOf(customers[k].phoneNumber) IN
        /\ fb.id # 0
        /\ customers[k].totalVisits <= Len(fb.visits)

\* Two overlapping submits of one customer have both been answered 201 and
\* have both appended their visit, and the Customer counts one of them: it
\* is behind the Feedback, which holds three visits.
C26_Witness ==
    /\ NoneInFlight
    /\ \E p \in Phones :
        /\ Len(AcceptedOf(p)) = 3
        /\ Len(FeedbackOf(p).visits) = 3
        /\ CustomerOf(p).totalVisits = 2


\* How far the Customer of a phone number is behind its Feedback: the visits
\* of the Feedback that totalVisits does not count (all of them when there
\* is no Customer), less the visits of the submits that are between their
\* two writes and may still count theirs.
Behind(p) ==
    Len(FeedbackOf(p).visits)
        - (IF CustomerOf(p).id = 0 THEN 0 ELSE CustomerOf(p).totalVisits)
        - Cardinality({r \in Reqs : BetweenWrites(r) /\ req[r].input.phoneNumber = p})

\* C27, first part: a submit for a date of which the stored Feedback holds a
\* visit does not get to the Customer step: it ends at the duplicate check
\* (409, or 500 when the store fails) and leaves the Customer as it is.
C27_RetryStep ==
    \A r \in Reqs :
        (/\ FeedbackFound(r)
         /\ DateKey(req[r].now) \in DatesOf(FeedbackOf(req[r].input.phoneNumber)))
        => /\ req'[r].pc = "idle"
           /\ answer'.status \in {409, 500}
           /\ customers' = customers

\* C27, second part: no step brings a Customer closer to its Feedback: what
\* an interrupted submit has left uncounted stays uncounted.
C27_NoRepairStep == \A p \in Phones : Behind(p)' >= Behind(p)

\* C27: a Customer left stale by an interrupted submit is never repaired by
\* later submits: a retry on the same day is rejected as DuplicateSubmission
\* before the Customer step, and after a later successful submit on another
\* day totalVisits is still smaller than the number of visits of the Feedback.
C27_NeverRepaired == [][C27_RetryStep /\ C27_NoRepairStep]_vars

\* A first submit has stopped between its writes, and a submit of a later
\* day has been answered 201: the Customer was created by the second, with
\* totalVisits 1, and the Feedback holds two visits.
C27_Witness ==
    /\ NoneInFlight
    /\ answer.status = 201
    /\ \E p \in Phones :
        /\ Len(AcceptedOf(p)) = 1
        /\ Len(FeedbackOf(p).visits) = 2
        /\ CustomerOf(p).totalVisits = 1
        /\ CustomerOf(p).firstVisitDate = FeedbackOf(p).visits[2].createdAt
        /\ FeedbackOf(p).visits[1].dateKey < FeedbackOf(p).visits[2].dateKey


\* C28, the step: a Feedback that has contactedAt and contactedBy set has
\* them set after every step, at the same position of the collection, also
\* after a step that adds a visit to it; and the first aggregate of analytics
\* counts as contacted every visit in the window of a Feedback that has
\* contactedAt set, the visits created after the contact among them.
C28_StickyStep ==
    /\ \A i \in 1..Len(feedbacks) :
        feedbacks[i].contactedAt # Unset =>
            /\ i <= Len(feedbacks')
            /\ feedbacks'[i].id = feedbacks[i].id
            /\ feedbacks'[i].contactedAt # Unset
            /\ feedbacks'[i].contactedBy # ""
    /\ StatsAnswered =>
        analytics'.stats.contacted >=
            Cardinality({row \in WindowVisits(ContactedFeedback, analytics.startDate) :
                            feedbacks[row[1]].visits[row[2]].createdAt
                                > feedbacks[row[1]].contactedAt})
    /\ StatsAnswered =>
        analytics'.stats.total - analytics'.stats.contacted =
            Cardinality(WindowVisits((1..Len(feedbacks)) \ ContactedFeedback,
                                     analytics.startDate))

\* C28: contacted status is sticky: once markContacted has succeeded on a
\* Feedback, contactedAt and contactedBy stay set in every later state; a
\* later successful submit that appends a visit does not clear them, and
\* analytics counts the new visit as contacted.
C28_ContactedSticky == [][C28_StickyStep]_vars

\* A Feedback was marked as contacted, its customer has since submitted a
\* visit that was answered 201, and analytics has counted that visit among
\* the contacted.
C28_Witness ==
    /\ answer.status = 201
    /\ reply.route = "analytics" /\ reply.status = 200
    /\ Cardinality(ContactedFeedback) = 1
    /\ \E i \in ContactedFeedback :
        /\ Len(feedbacks[i].visits) >= 2
        /\ feedbacks[i].visits[Len(feedbacks[i].visits)].createdAt > feedbacks[i].contactedAt
        /\ accepted[Len(accepted)].now = feedbacks[i].visits[Len(feedbacks[i].visits)].createdAt
        /\ reply.body.feedbackVolume[1].value
             = Cardinality(WindowVisits({i}, StartDate(reply.args.period, clock)))
        /\ reply.body.feedbackVolume[1].value >= 2


\* C29: in every analytics answer, for either period, feedbackVolume holds
\* the buckets Contacted and Pending, neither is negative, and together they
\* make totalFeedback, so that contacted never exceeds totalFeedback.
C29_VolumeBuckets ==
    (reply.route = "analytics" /\ reply.status = 200) =>
        LET volume == reply.body.feedbackVolume IN
        /\ Len(volume) = 2
        /\ volume[1].name = "Contacted" /\ volume[2].name = "Pending"
        /\ volume[1].value >= 0
        /\ volume[2].value >= 0
        /\ volume[1].value + volume[2].value = reply.body.totalFeedback
        /\ volume[1].value <= reply.body.totalFeedback

\* Analytics for the week has answered with one visit contacted and one
\* pending, while the contacted Feedback holds an older visit outside the
\* window.
C29_Witness ==
    /\ reply.route = "analytics" /\ reply.status = 200 /\ reply.args.period = "week"
    /\ reply.body.feedbackVolume[1].value = 1
    /\ reply.body.feedbackVolume[2].value = 1
    /\ reply.body.totalFeedback = 2
    /\ \E i \in ContactedFeedback :
        /\ Len(feedbacks[i].visits) = 2
        /\ feedbacks[i].visits[1].createdAt < StartDate("week", clock)

\* A create-feedback request ends in this step: the body is refused by the
\* parse on arrival, or request r, in flight, is answered.
Refused == started' # started /\ req' = req

Ended(r) == InFlight(r) /\ req'[r].pc = "idle"

\* C30: every create-feedback request ends in one of four outcomes.  400: the
\* body fails validation and nothing is written.  201: no error, the visit is
\* in the Feedback and the Customer write of the request is done.  409: the
\* error has code 11000, which is the same-day duplicate check, or the
\* unique index refusing the insert of a new Feedback or of a new Customer.
\* 500: any other error.  A 409 or 500 changes nothing in either collection,
\* and one raised at the Customer step is returned with the visit of the
\* request stored in the Feedback.
C30_OutcomeStep ==
    /\ Refused =>
        /\ answer'.status = 400
        /\ answer'.err = ZodError
        /\ ~ParseOk(answer'.input)
        /\ feedbacks' = feedbacks /\ customers' = customers /\ accepted' = accepted
    /\ \A r \in Reqs : Ended(r) =>
        LET p == req[r].input.phoneNumber IN
        /\ ParseOk(req[r].input)
        /\ answer'.status \in {201, 409, 500}
        /\ answer'.status = 201 <=> answer'.err = NoError
        /\ answer'.status = 409 <=> answer'.err.code = DuplicateKey
        /\ answer'.status = 500 <=> (answer'.err # NoError /\ answer'.err.code # DuplicateKey)
        /\ answer'.status = 201 =>
            /\ req[r].pc = "saveCustomer"
            /\ VisitStored(r)
            /\ feedbacks' = feedbacks
            /\ FindOne(customers', p, NoCustomer).id # 0
            /\ FindOne(customers', p, NoCustomer).lastVisitDate = req[r].now
            /\ accepted' = Append(accepted, Accepted(r))
        /\ answer'.status # 201 =>
            /\ answer'.failedAt = req[r].pc
            /\ feedbacks' = feedbacks /\ customers' = customers /\ accepted' = accepted
        /\ answer'.status = 409 =>
            \/ /\ req[r].pc = "findFeedback"
               /\ DateKey(req[r].now) \in DatesOf(FeedbackOf(p))
            \/ /\ req[r].pc = "saveFeedback"
               /\ req[r].isNew /\ FeedbackOf(p).id # 0
            \/ /\ req[r].pc = "saveCustomer"
               /\ req[r].isNewCard /\ CustomerOf(p).id # 0
        /\ (answer'.status # 201 /\ BetweenWrites(r)) => VisitStored(r)

C30_FourOutcomes == [][C30_OutcomeStep]_vars

\* A submit has been answered 409 by the Customer insert: the Feedback holds
\* the two visits of the phone number and its Customer counts one.
C30_Witness ==
    /\ answer.status = 409
    /\ answer.failedAt = "saveCustomer"
    /\ \E p \in Phones :
        /\ Len(FeedbackOf(p).visits) = 2
        /\ CustomerOf(p).totalVisits = 1

====
